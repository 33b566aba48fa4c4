---------------------------- MODULE FramedWriter ----------------------------
(***************************************************************************)
(* The writer the two protocol clients have in common                      *)
(* (src/ide/ide_lsp_client.c and src/ide/ide_dap_client.c): a queue of     *)
(* framed messages and at most one asynchronous write in flight.  The      *)
(* stream is a pipe or a socket of GIO, external to this repository.       *)
(***************************************************************************)
EXTENDS Sequences

VARIABLES
  writeQueue,  \* write_queue: messages not yet handed to the stream
  writing,     \* the message of the write in flight, <<>> if there is none
  out          \* history: the messages the stream took, in order

writerVars == <<writeQueue, writing, out>>

WriterInit == writeQueue = <<>> /\ writing = <<>> /\ out = <<>>

(* pump_writer: nothing while a write is in flight or nothing is queued.   *)
Pump(queue, busy) ==
  IF busy = <<>> /\ queue # <<>>
  THEN writing' = <<Head(queue)>> /\ writeQueue' = Tail(queue)
  ELSE writing' = busy /\ writeQueue' = queue

(* send_framed / send_json, for the messages one callback sends in a row.  *)
Send(messages) ==
  /\ Pump(writeQueue \o messages, writing)
  /\ out' = out

SendsNothing == UNCHANGED writerVars

(* Fault: the completion does not start the next write. *)
WriteDoneWithoutPump ==
  /\ writing # <<>>
  /\ out' = out \o writing
  /\ writing' = <<>>
  /\ writeQueue' = writeQueue

(* on_write_done without an error: the next message goes out. *)
WriteDone ==
  /\ writing # <<>>
  /\ out' = out \o writing
  /\ Pump(writeQueue, <<>>)

(* on_write_done with an error: the message is lost and the queue stays    *)
(* where it is until the next message is sent.                             *)
WriteFails ==
  /\ writing # <<>>
  /\ writing' = <<>>
  /\ UNCHANGED <<writeQueue, out>>

(* on_write_done reports fewer bytes than the message has.  The byte count *)
(* is not looked at, so what is missing is never sent; `torn` is what the  *)
(* stream then carries instead of the message.                             *)
WriteShort(torn) ==
  /\ writing # <<>>
  /\ out' = Append(out, torn)
  /\ Pump(writeQueue, <<>>)

(* Everything that went out or will, in the order it was sent. *)
Outgoing == out \o writing \o writeQueue
=============================================================================

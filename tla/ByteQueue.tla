----------------------------- MODULE ByteQueue -----------------------------
(***************************************************************************)
(* What a DataStream promises: a queue of bytes with an end mark.  got is  *)
(* what the last call that reads returned.                                 *)
(***************************************************************************)
EXTENDS Naturals, Sequences

CONSTANTS Bytes, NoData
VARIABLES content, eof, got

QueueInit == content = <<>> /\ eof = FALSE /\ got = <<>>

(* Bytes are added at the end and the end may be marked, but nothing is     *)
(* added after the mark.                                                    *)
Add ==
  /\ content' \in Seq(Bytes) /\ Len(content') >= Len(content)
  /\ SubSeq(content', 1, Len(content)) = content
  /\ eof => eof' /\ content' = content
  /\ UNCHANGED got

(* Bytes are taken from the front, at least one if there are any; the end   *)
(* is told when there are none.                                             *)
Take ==
  /\ content # <<>>
  /\ \E n \in 1..Len(content) :
       got' = SubSeq(content, 1, n) /\ content' = SubSeq(content, n + 1, Len(content))
  /\ UNCHANGED eof
TakeNone ==
  /\ content = <<>> /\ got' = IF eof THEN NoData ELSE <<>>
  /\ UNCHANGED <<content, eof>>

Clear == content' = <<>> /\ eof' = FALSE /\ got' = <<>>

QueueNext == Add \/ Take \/ TakeNone \/ Clear
QueueSpec == QueueInit /\ [][QueueNext]_<<content, eof, got>>
=============================================================================

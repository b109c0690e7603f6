--------------------------- MODULE MCMailboxPush ---------------------------
(***************************************************************************)
(* Instances of MailboxPush: two senders that use the same client id, a    *)
(* batch of two keyed items, items without an id and items that fail the   *)
(* checks.                                                                 *)
(***************************************************************************)
EXTENDS MailboxPush

Send(c) == [cid |-> c, verdict |-> "sendable"]

TwoSenders ==
  { [sender |-> "p", items |-> <<Send("c1"), Send("c2")>>],
    [sender |-> "q", items |-> <<Send("c1")>>] }

MixedItems ==
  { [sender |-> "p", items |-> << [cid |-> "c0", verdict |-> "skipped"], Send("c1"),
                                  Send(NoId), Send("c2") >>],
    [sender |-> "p", items |-> << Send("c1"),
                                  [cid |-> "c2", verdict |-> "forbidden"] >>] }
=============================================================================

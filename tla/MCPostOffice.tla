---------------------------- MODULE MCPostOffice ----------------------------
(***************************************************************************)
(* Two machines: MailTest on both, or two threads of one machine that send *)
(* to two mailboxes of the other; all threads have one priority, or the    *)
(* first thread of each machine is more urgent.                            *)
(***************************************************************************)
EXTENDS PostOffice

Nothing == ("t1" :> <<>>) @@ ("t2" :> <<>>)

MailTests ==
  (1 :> [Nothing EXCEPT !["t1"] = MailTest(2)]) @@ (2 :> [Nothing EXCEPT !["t1"] = MailTest(1)])

TwoSenders ==
  (1 :> (("t1" :> <<SendCall(2, 0, 0, "a"), SendCall(2, 0, 0, "b")>>)
         @@ ("t2" :> <<SendCall(2, 1, 1, "c")>>)))
  @@ (2 :> [Nothing EXCEPT !["t1"] = <<ReceiveCall(0), ReceiveCall(1), ReceiveCall(0)>>])

Nobody == 1 :> {} @@ 2 :> {}
Main == 1 :> {"t1"} @@ 2 :> {"t1"}

MCScenarios == [calls : {MailTests, TwoSenders}, urgent : {Nobody, Main}]
=============================================================================

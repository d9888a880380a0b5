------------------------------- MODULE TurnBus -------------------------------
(***************************************************************************)
(* The two data types of the turn bus (packages/orchestrator/src/bus.ts):  *)
(* a Channel, which replays everything pushed so far to every subscriber   *)
(* and then follows the stream live, and the position of one subscriber in *)
(* it.  A subscriber is only its cursor: the waiters of the code are the   *)
(* guards HasNext, Ended and Failed becoming true.                         *)
(***************************************************************************)
EXTENDS Naturals, Sequences

ChannelState == {"open", "closed", "failed"}

Channel(Item) == [items : Seq(Item), state : ChannelState]

EmptyChannel == [items |-> << >>, state |-> "open"]

\* Faulty variants of the operations below, for mutation runs only.
CloseForgotten(c) == c
FailLeavesOpen(c) == c
HasNextDropsLast(c, cur) == cur + 1 < Len(c.items)

\* push, close and fail: all three are no-ops once the channel is closed.
Push(c, item) ==
  IF c.state = "open" THEN [c EXCEPT !.items = Append(c.items, item)] ELSE c

Close(c) == IF c.state = "open" THEN [c EXCEPT !.state = "closed"] ELSE c

Fail(c) == IF c.state = "open" THEN [c EXCEPT !.state = "failed"] ELSE c

\* What a subscriber whose cursor is `cur` sees next: an item, the thrown
\* failure, or the end; while none holds it waits.
HasNext(c, cur) == cur < Len(c.items)
Failed(c, cur)  == ~HasNext(c, cur) /\ c.state = "failed"
Ended(c, cur)   == ~HasNext(c, cur) /\ c.state = "closed"
=============================================================================

------------------------------ MODULE Learning ------------------------------
(***************************************************************************)
(* What payments do to the channels they cross, and what they teach of     *)
(* them (rebalance/failure.go, and SendPay and manageTimeout in            *)
(* node/payment.go).  The splits of the runs pay at once, each in a        *)
(* goroutine of its own: an HTLC reaches a channel, which carries its      *)
(* amount or refuses it; later the payment succeeds or fails; and later    *)
(* still, once waitsendpay has returned, the split learns from it.  Other  *)
(* payments over the channel, and what they teach, may come anywhere       *)
(* between.                                                                *)
(*                                                                         *)
(* A payment is followed at one channel of its route: each Learn call is   *)
(* about one channel and takes channelsLock for itself.  The network is    *)
(* external: only our payments move a balance, and a channel fails one     *)
(* with temporary_channel_failure only for lack of liquidity.              *)
(***************************************************************************)
EXTENDS LearnedStore, Tally

CONSTANT Splits   \* bound: the payments there may be at a time

\* carried: the channel carries it, and the split waits;
\* paid, failed: it carried it, and the payment succeeded or failed further on;
\* refused, unusable: the channel failed it;
\* late: learned as paid, at a timeout, while the channel still carries it;
\* lost: carried, and nobody will learn of it.
Carried == {"carried", "late", "lost"}
Over    == {"paid", "failed"}
Failed  == {"refused", "unusable"}

Htlcs == [id : Ids, amount : 1 .. Cap - 1, state : Carried \cup Over \cup Failed]

ASSUME SplitsAssumption == IsFiniteSet(Splits) /\ Absent \notin Htlcs

VARIABLES
  balance,   \* by scid, what direction 0 really holds
  split,     \* by split, its HTLC, or Absent
  shared,    \* history: the splits whose channel carried another meanwhile
  behind,    \* history: the ids that received since the save being made
             \* ("data") and the last one completed ("saved") read the graph
  doubted    \* history: the ids whose bounds may be too low: a payment was
             \* learned too late or out of order, or what it taught was lost

learningVars == <<balance, split, shared, behind, doubted>>

Saves == {"data", "saved"}

LearningTypeOK ==
  /\ balance \in [Scids -> 0 .. Cap]
  /\ split \in [Splits -> Htlcs \cup {Absent}]
  /\ shared \subseteq Splits
  /\ behind \in [Saves -> SUBSET Ids]
  /\ doubted \subseteq Ids

\* The payments over id in one of the states S, and what they add up to.
Paying(id, S) ==
  {p \in Splits : split[p] # Absent /\ split[p].id = id /\ split[p].state \in S}

Amount(id, S) == SumOver([p \in Paying(id, S) |-> split[p].amount], Paying(id, S))

\* What id holds, and what of it no HTLC takes.
Holds(id) == IF id[2] = 0 THEN balance[id[1]] ELSE Cap - balance[id[1]]

Spendable(id) == Holds(id) - Amount(id, Carried)

\* What id would hold if the payments learned were those that moved it.
Told(id) ==
  Holds(id) + Amount(id, {"paid"}) - Amount(Opposite(id), {"paid"})
            - Amount(id, {"late"}) + Amount(Opposite(id), {"late"})

\* The splits that do not pay.
Idle == {p \in Splits : split[p] = Absent}

\* The payments over the channel s.
Of(s) == {p \in Splits : split[p] # Absent /\ split[p].id[1] = s}

\* Those of them it carries, or carried.
Crossed(s) == {p \in Of(s) : split[p].state \notin Failed}

LearningInit ==
  /\ split = [p \in Splits |-> Absent]
  /\ shared = {}
  /\ behind = [w \in Saves |-> {}]
  /\ doubted = {}
-----------------------------------------------------------------------------
(***************************************************************************)
(* The network.                                                            *)
(***************************************************************************)
Moved(id, a) ==
  balance' = [balance EXCEPT ![id[1]] = IF id[2] = 0 THEN @ - a ELSE @ + a]

\* An HTLC of split p reaches id.
Reaches(p, id, a, state) ==
  /\ split[p] = Absent
  /\ split' = [split EXCEPT ![p] = [id |-> id, amount |-> a, state |-> state]]
  /\ shared' = shared \cup (IF Crossed(id[1]) # {} THEN {p} ELSE {})
                      \cup (IF state \notin Failed THEN Of(id[1]) ELSE {})
  /\ UNCHANGED <<balance, behind, doubted>>

\* sendpay: id carries it if it can, and refuses it otherwise.
SendPay(p, id, a) ==
  \/ Spendable(id) >= a /\ Reaches(p, id, a, "carried")
  \/ Spendable(id) < a /\ Reaches(p, id, a, "refused")
  \/ Reaches(p, id, a, "unusable")

Becomes(p, state) == split' = [split EXCEPT ![p].state = state]

Ends(p) == split' = [split EXCEPT ![p] = Absent] /\ shared' = shared \ {p}

\* The payment succeeds, or fails further on, before waitsendpay times out.
Settle(p) ==
  /\ split[p] # Absent /\ split[p].state = "carried"
  /\ \/ Becomes(p, "paid") /\ Moved(split[p].id, split[p].amount)
     \/ Becomes(p, "failed") /\ UNCHANGED balance
  /\ UNCHANGED <<shared, behind, doubted>>

\* It does so when no split waits for it.  If nobody learned of a success, the
\* other direction is not known to have received.
SettleAlone(p) ==
  /\ split[p] # Absent
  /\ \/ /\ split[p].state = "late"
        /\ Moved(split[p].id, split[p].amount)
        /\ UNCHANGED doubted
     \/ /\ split[p].state = "lost"
        /\ Moved(split[p].id, split[p].amount)
        /\ doubted' = doubted \cup {Opposite(split[p].id)}
     \/ /\ split[p].state = "lost"
        /\ UNCHANGED <<balance, doubted>>
  /\ Ends(p)
  /\ UNCHANGED behind
-----------------------------------------------------------------------------
(***************************************************************************)
(* What is learned.                                                        *)
(***************************************************************************)
\* learnFromSuccess.  What the other direction received is newer than what was
\* saved.  It does not learn of it if the graph lacks it, though what the start
\* read may bring its bound back; and a payment out of it that is not learned
\* yet may have made room for this one, beyond the capacity.
LearnFromSuccess(p) ==
  LET id == split[p].id  other == Opposite(id) IN
    /\ LearnPayment(id, split[p].amount)
    /\ behind' = [w \in Saves |-> behind[w] \cup {other}]
    /\ doubted' = doubted \cup
         (IF \/ Paying(other, {"paid"}) # {}
             \/ pendingBeliefs # NoFile /\ other \notin InGraph
          THEN {other} ELSE {})
    /\ UNCHANGED balance

\* learnFromFailure: the channels before the one that failed carried the
\* amount, unless the error names none of the route; that one is short of it,
\* or cannot be used.  If the channel carried another payment since the HTLC
\* reached it, the bound may have been wrong from the start, or be stale.
LearnFromFailure(p) ==
  LET id == split[p].id  a == split[p].amount IN
    /\ \/ split[p].state = "failed" /\ LearnLowerBound(id, a)
       \/ split[p].state = "failed" /\ UNCHANGED channelVars
       \/ split[p].state = "refused" /\ LearnUpperBound(id, a)
       \/ split[p].state = "unusable" /\ MarkUnusable(id)
    /\ doubted' = doubted \cup
         CASE p \notin shared -> {}
           [] split[p].state = "failed" -> {Opposite(id)}
           [] split[p].state = "refused" -> {id}
           [] OTHER -> {}
    /\ UNCHANGED <<balance, behind>>

\* tryRoute, once waitsendpay has returned.
Learns(p) ==
  /\ split[p] # Absent
  /\ \/ split[p].state = "paid" /\ LearnFromSuccess(p)
     \/ LearnFromFailure(p)
  /\ Ends(p)

\* waitsendpay times out.  A payment whose invoice is paid counts as a success;
\* of any other, nothing is learned.
TimesOut(p) ==
  /\ split[p] # Absent /\ split[p].state = "carried"
  /\ \/ LearnFromSuccess(p) /\ Becomes(p, "late")
     \/ Becomes(p, "lost") /\ UNCHANGED <<channelVars, balance, behind, doubted>>
  /\ UNCHANGED shared

\* The process is gone: what its splits did not learn, and what the last save
\* has not, nobody knows.  The network goes on.
SplitsStop ==
  /\ split' = [p \in Splits |->
       IF split[p] = Absent THEN Absent
       ELSE CASE split[p].state = "carried" -> [split[p] EXCEPT !.state = "lost"]
              [] split[p].state \in {"late", "lost"} -> split[p]
              [] OTHER -> Absent]
  /\ shared' = {p \in shared : split'[p] # Absent}
  /\ doubted' = doubted \cup behind["saved"] \cup
       {i \in Ids : Paying(Opposite(i), {"paid"}) # {}}
  /\ behind' = [w \in Saves |-> {}]
  /\ UNCHANGED balance
=============================================================================

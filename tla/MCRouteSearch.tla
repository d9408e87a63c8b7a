--------------------------- MODULE MCRouteSearch ---------------------------
(* A network of two peers and two nodes between them, with a channel of     *)
(* ours to one of those, a shortcut, two parallel channels, a way back, and *)
(* channels both ways between the two nodes.  Every channel adds the same   *)
(* delay, so that no label hides one of shorter delay.                      *)
EXTENDS RouteSearch

Ends(f, t) == [from |-> f, to |-> t]

Network ==
  [out |-> Ends("us", "p"), in |-> Ends("q", "us"),
   pq |-> Ends("p", "q"), pa |-> Ends("p", "a"), pb |-> Ends("p", "b"),
   aq |-> Ends("a", "q"), bq |-> Ends("b", "q"), ab |-> Ends("a", "b"),
   ba |-> Ends("b", "a"), aq2 |-> Ends("a", "q"),
   ua |-> Ends("us", "a"), qa |-> Ends("q", "a")]

MCFrom == [c \in DOMAIN Network |-> Network[c].from]
MCTo == [c \in DOMAIN Network |-> Network[c].to]
MCChannels == DOMAIN Network \ {"out", "in"}

Policy(base, rate, inBase, inRate, liquidity, doubt) ==
  [base |-> base, rate |-> rate, inBase |-> inBase, inRate |-> inRate,
   liquidity |-> liquidity, doubt |-> doubt, min |-> 1, delay |-> 1,
   active |-> TRUE]

Free == Policy(0, 0, 0, 0, 30, 0)
Cheap == Policy(0, 1, 0, 0, 30, 2)
Dear == Policy(3, 0, -2, 0, 30, 0)
Tight == Policy(1, 0, 0, -5, 10, 0)
Doubtful == Policy(0, 1, 0, -1, 30, Hopeless)
Closed == [Free EXCEPT !.active = FALSE]
Surcharged == Policy(0, 0, 1, 0, 30, 0)
KeptOff == Policy(0, 90, 0, 0, 30, 0)

Middle == {Cheap, Dear, Tight, Doubtful, KeptOff}

MCGraphs ==
  {[out |-> out, in |-> Cheap, pq |-> pq, pa |-> pa, pb |-> pb, aq |-> aq,
    bq |-> bq, ab |-> Free, aq2 |-> Surcharged, ba |-> ba,
    ua |-> Free, qa |-> Free] :
     out \in {Free, Policy(0, 0, -1, 1, 30, 0)}, pq \in {Closed, Tight},
     ba \in {Free, Doubtful}, pa, pb, aq, bq \in Middle}

Request(ppm, riskppm, hops, exclude) ==
  [maxPPM |-> ppm, riskPPM |-> riskppm, maxHops |-> hops, exclude |-> exclude]

MCRequests ==
  {Request(4, 0, 5, {}), Request(2, 2, 5, {}), Request(6, 1, 4, {"b"}),
   Request(5, 1, 5, {"pa"}), Request(0, 0, 5, {}), Request(6, 0, 1, {})}
=============================================================================

----------------------------- MODULE MCDispatch -----------------------------
(***************************************************************************)
(* Instances of Dispatch for TLC.  "Rivals" are two campaigns that select  *)
(* the same creator, "Pair" is one campaign with two creators, "Single" is *)
(* one campaign with one recipient.                                        *)
(***************************************************************************)
EXTENDS DispatchContract, TLC

CONSTANTS c1, c2, r1, r2, k1, k2, w1, w2

RivalsCampaignOf == r1 :> c1 @@ r2 :> c2
RivalsCreatorOf == r1 :> k1 @@ r2 :> k1

PairCampaignOf == r1 :> c1 @@ r2 :> c1
PairCreatorOf == r1 :> k1 @@ r2 :> k2

SingleCampaignOf == r1 :> c1
SingleCreatorOf == r1 :> k1

\* Runs are interchangeable, and so are rivals (with their campaigns) and the
\* members of a pair (with their creators).
Swapped(p, q) == p :> q @@ q :> p
Same(p, q) == p :> p @@ q :> q
WorkerSymmetry == {Same(w1, w2), Swapped(w1, w2)}
RivalSymmetry == {f @@ g : f \in WorkerSymmetry,
                           g \in {Same(r1, r2) @@ Same(c1, c2),
                                  Swapped(r1, r2) @@ Swapped(c1, c2)}}
PairSymmetry == {f @@ g : f \in WorkerSymmetry,
                          g \in {Same(r1, r2) @@ Same(k1, k2),
                                 Swapped(r1, r2) @@ Swapped(k1, k2)}}

=============================================================================

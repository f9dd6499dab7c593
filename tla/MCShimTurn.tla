----------------------------- MODULE MCShimTurn -----------------------------
(* Small instances of ShimTurn for TLC. *)
EXTENDS ShimTurnProperties, TLC

CONSTANTS p1, p2, p3,    \* prompts
          d1, d2,        \* redirects
          e1, e2,        \* endpoints
          a1, a2, a3, a4, \* reply subjects
          MaxRequests,   \* bound: requests dispatched and interrupts
          MaxDisturbances \* bound: what else happens in one behaviour

(* One prompt. *)
OneReply == p1 :> a1

(* A prompt and a redirect that is dispatched. *)
PromptAndRedirect == (p1 :> a1) @@ (d1 :> a2)

(* Two prompts to accept and one without a reply subject; a redirect to    *)
(* dispatch and one whose body is refused.                                 *)
MixedReplies ==
  (p1 :> a1) @@ (p2 :> a2) @@ (p3 :> NoReply) @@ (d1 :> a3) @@ (d2 :> a4)

(* A behaviour is explored as long as few requests are dispatched and few  *)
(* interrupts delivered, whichever they are, and few other things happen:  *)
(* a request that is dropped, the shutdown, a repeated terminator, a turn  *)
(* with output.                                                            *)
Dropped == {t \in Turns \ pending : ReplyOf[t] = NoReply \/ t \in Redirects \cap Malformed}

Requests == Cardinality(Turns \ (pending \cup Dropped)) + interrupts

Disturbances ==
  Cardinality(Dropped)
  + (IF running THEN 0 ELSE 1)
  + Cardinality({t \in Turns : agent[t] = "repeated"})
  + Cardinality({t \in Turns : emitted[t] > 0})

Explored == Requests <= MaxRequests /\ Disturbances <= MaxDisturbances

(* The endpoints are alike, and so are the two prompts with their replies. *)
SwapPrompts == (p1 :> p2) @@ (p2 :> p1) @@ (a1 :> a2) @@ (a2 :> a1)
Symmetric == Permutations({e1, e2}) \cup {SwapPrompts}
=============================================================================

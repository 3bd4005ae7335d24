------------------------------ MODULE Resolver ------------------------------
(***************************************************************************)
(* What obi_rt_get_profile promises (src/include/obi/obi_rt_v0.h, "Fetch a *)
(* profile handle from the selection policy winner"): the answer is the    *)
(* one the precedence rules give for the providers and the policy as they  *)
(* are now.  There is no cache here, so there is nothing that could be     *)
(* stale; ObiRuntime is shown to implement this module.                    *)
(***************************************************************************)
EXTENDS RtSelection

CONSTANTS AnswerTables

VARIABLES providers, policy, answers, ret

vars == <<providers, policy, answers, ret>>

\* The outcome of the last get_profile call, or NoOutcome after another step.
NoOutcome == <<>>

Init ==
    /\ providers = <<>>
    /\ policy \in Policies
    /\ answers \in AnswerTables
    /\ ret = NoOutcome

\* Any call but get_profile: providers are only ever appended, and one call
\* never changes both the provider set and the policy.
Reconfigure ==
    /\ \/ \E p \in ProviderIds : providers' = Append(providers, p) /\ UNCHANGED policy
       \/ policy' \in Policies /\ UNCHANGED providers
    /\ ret' = NoOutcome
    /\ UNCHANGED answers

\* get_profile answers by the precedence rules or runs out of memory.
GetProfile(k) ==
    LET res == Resolve(providers, policy, [p \in ProviderIds |-> answers[p][k]], k[1])
    IN /\ \/ ret' = <<k, res.status, res.by>>
          \/ ret' = <<k, "OUT_OF_MEMORY", NoProvider>>
       /\ UNCHANGED <<providers, policy, answers>>

Next == Reconfigure \/ \E k \in Requests : GetProfile(k)

Spec == Init /\ [][Next]_vars
=============================================================================

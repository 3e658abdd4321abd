--------------------------- MODULE TaggerProviders ---------------------------
(***************************************************************************)
(* The provider list of the packet tagger                                  *)
(* (src/libcorsaro3/libcorsaro3_tagging.c): corsaro_create_packet_tagger   *)
(* starts it empty, corsaro_enable_ipmeta_provider appends a provider, and *)
(* corsaro_replace_ipmeta_provider swaps the provider of the same libipmeta *)
(* id for a new one or appends it.  providermask, with bit id - 1 for each *)
(* provider, is what the lookups in corsaro_tag_packet ask libipmeta for.  *)
(* A list node's data is a provider, or Dangling once it points at a stack *)
(* slot that has gone.                                                     *)
(***************************************************************************)
EXTENDS Naturals, Sequences, SequencesExt

CONSTANTS
    Providers,   \* ipmeta_provider_t instances
    ProvId,      \* Providers -> libipmeta provider id
    NULL,
    Dangling,
    MaxCalls     \* enable/replace calls in one run

VARIABLES
    providers,     \* tagger->providers, head first
    providermask,  \* tagger->providermask as a set of bit numbers
    crashed,       \* a NULL node was written through
    calls

vars == <<providers, providermask, crashed, calls>>

\* the bit of providermask for a provider
MaskBit_noshift(prov) == ProvId[prov]
MaskBit(prov) == ProvId[prov] - 1

\* corsaro_create_packet_tagger
Init ==
    /\ providers = << >>
    /\ providermask = {}
    /\ crashed = FALSE
    /\ calls = 0

Call(op) == /\ ~crashed
            /\ calls < MaxCalls
            /\ op
            /\ calls' = calls + 1

\* corsaro_enable_ipmeta_provider: a NULL provider (one that
\* corsaro_init_ipmeta_provider failed to create) is skipped
EnableProvider(prov) ==
    Call(IF prov = NULL
         THEN UNCHANGED <<providers, providermask, crashed>>
         ELSE /\ providers' = Append(providers, prov)
              /\ providermask' = providermask \cup {MaskBit(prov)}
              /\ UNCHANGED crashed)

\* the search loop of corsaro_replace_ipmeta_provider: the indexes of the
\* node it may stop at, 0 if it runs off the end.  It stops at the first node
\* whose provider has prov's id; a Dangling node before that one is read
\* through a stale pointer and may or may not hold prov's id.
Matches(prov) ==
    LET real == {i \in DOMAIN providers :
                   providers[i] # Dangling /\ ProvId[providers[i]] = ProvId[prov]}
        stop == IF real = {} THEN Len(providers) + 1 ELSE Min(real)
    IN  {i \in 1 .. stop - 1 : providers[i] = Dangling}
        \cup (IF real = {} THEN {0} ELSE {stop})

\* the node the code writes when the match is node i: the loop has already
\* stepped n to the next node before it breaks
ReplacedNode(i) == i + 1

\* the new-provider branch of corsaro_replace_ipmeta_provider
AppendProvider_nomask(prov) ==
    /\ providers' = Append(providers, prov)
    /\ UNCHANGED <<providermask, crashed>>
AppendProvider(prov) ==
    /\ providers' = Append(providers, prov)
    /\ providermask' = providermask \cup {MaskBit(prov)}
    /\ UNCHANGED crashed

\* corsaro_replace_ipmeta_provider: append if no node has prov's id, else
\* n->data = &prov on the node n points at: a NULL n (the match was the
\* last node) crashes; otherwise that node points at the parameter's stack
\* slot, which is gone once the call returns
ReplaceProvider(prov) ==
    Call(IF prov = NULL
         THEN UNCHANGED <<providers, providermask, crashed>>
         ELSE \E i \in Matches(prov) :
                 IF i = 0 THEN AppendProvider(prov)
                 ELSE IF ReplacedNode(i) > Len(providers)
                 THEN /\ crashed' = TRUE
                      /\ UNCHANGED <<providers, providermask>>
                 ELSE /\ providers' = [providers EXCEPT ![ReplacedNode(i)] = Dangling]
                      /\ UNCHANGED <<providermask, crashed>>)

Next ==
    \E prov \in Providers \cup {NULL} : EnableProvider(prov) \/ ReplaceProvider(prov)

Spec == Init /\ [][Next]_vars

-----------------------------------------------------------------------------

(* TypeOK: the list holds providers, or dangling nodes, and the mask holds  *)
(* only bits 0 .. 2, one for each libipmeta provider id 1 .. 3.            *)
TypeOK ==
    /\ \A i \in DOMAIN providers : providers[i] \in Providers \cup {Dangling}
    /\ providermask \subseteq 0 .. 2
    /\ crashed \in BOOLEAN

(* MaskCoversProviders: every provider in the tagger's list has its bit in *)
(* providermask, so the lookup of corsaro_tag_packet asks libipmeta for its *)
(* records, whichever sequence of enable and replace calls built the list. *)
MaskCoversProviders ==
    \A i \in DOMAIN providers :
        providers[i] # Dangling => MaskBit(providers[i]) \in providermask

(* ProvidersLive: after any sequence of enable and replace calls, each node *)
(* of the tagger's list refers to a provider instance and no call has      *)
(* crashed, as the comment "Replace the existing one with our new          *)
(* provider" of corsaro_replace_ipmeta_provider promises.                   *)
ProvidersLive ==
    /\ ~crashed
    /\ \A i \in DOMAIN providers : providers[i] # Dangling
===============================================================================

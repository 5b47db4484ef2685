---------------------------- MODULE MCEmbeddings ----------------------------
(***************************************************************************)
(* A small instance for TLC of what stands between a chatbot and its       *)
(* provider: the model and width its vectors are locked to (Embeddings),   *)
(* its cached AI configuration (ConfigCache), the clients a process keeps  *)
(* (ClientCache), and what a visitor sees of a stream (ReasoningFilter).   *)
(* They share no state, so a behaviour of the run takes the steps of one   *)
(* and leaves the others where they began.                                 *)
(***************************************************************************)
EXTENDS Embeddings, ClientCache, ReasoningFilter, ConfigCache, TLC

CONSTANTS m1, m2, w1, w2

\* One model serves either width, the other only the first.
TwoWidths == m1 :> {w1, w2} @@ m2 :> {w1}

EmbeddingsSymmetry ==
    Permutations(Docs) \cup Permutations(Actors) \cup Permutations(Chatbots) \cup Permutations(Configurations)

\* The two tags begin alike, as <think> and </think> do.
OpenTag == <<"<", ">">>
CloseTag == <<"<", "/", ">">>

\* The chatbots begin alike while another component moves.
CacheAtRest == CacheInit /\ \A b, c \in Chatbots : saved[b] = saved[c]

ProviderInit == Init /\ CacheInit /\ FilterInit /\ ConfigInit

ProviderNext ==
    \/ /\ CacheAtRest /\ FilterInit /\ ConfigInit
       /\ Next
       /\ UNCHANGED <<cacheVars, filterVars, configVars>>
    \/ /\ Init /\ FilterInit /\ ConfigInit
       /\ CacheNext
       /\ UNCHANGED <<vars, filterVars, configVars>>
    \/ /\ Init /\ CacheAtRest /\ ConfigInit
       /\ FilterNext
       /\ UNCHANGED <<vars, cacheVars, configVars>>
    \/ /\ Init /\ CacheAtRest /\ FilterInit
       /\ ConfigNext
       /\ UNCHANGED <<vars, cacheVars, filterVars>>

ProviderSpec ==
    ProviderInit /\ [][ProviderNext]_<<vars, cacheVars, filterVars, configVars>>
=============================================================================

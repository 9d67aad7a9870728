------------------------------ MODULE MCAccess ------------------------------
(* A small instance of Access: a token of an org bound to an actor, and one *)
(* that may only read a repo; --auth-token is the one of scope all.         *)
EXTENDS Access, TLC

CONSTANTS a1, o1, r1, MaxTokenOps

MCIssues ==
    {[scopes |-> {<<"org", o1>>}, write |-> TRUE, ttl |-> 1, actor |-> a1],
     [scopes |-> {<<"repo", r1>>}, write |-> FALSE, ttl |-> None, actor |-> None]}

\* Bound: the three kinds of behaviour that are explored in depth: token
\* commands and the requests they allow, without users; logins of several processes; and
\* members, where one process has signed in once and pushes.
TokensOnly == /\ minted = <<>> /\ members = {} /\ \A a \in Admins : edit[a] = NoEdit
              /\ server # None => ~server.jwt
LoginsOnly == secrets = 0 /\ starts = 0 /\ ops = 0
MembersOnly == /\ secrets = 0 /\ Len(minted) <= 1 /\ faults = 0
               /\ Cardinality({c \in Clients : cpc[c] # "idle"}) <= 1

Bounded == /\ TokensOnly \/ LoginsOnly \/ MembersOnly
           /\ secrets > 0 => ops <= MaxTokenOps

Symmetry == Permutations(Clients) \cup Permutations(Labels)

=============================================================================

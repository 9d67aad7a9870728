--------------------------- MODULE MCServerStore ---------------------------
(* Small instances of ServerStore: one contested repo, two orgs with one   *)
(* member each, and pushes of every kind of credential.                    *)
EXTENDS ServerStore, TLC

CONSTANTS h1, h2, r1, r2, orgA, orgB, userA, userB, i1, i2, i3

Open == [kind |-> "open"]
OrgToken(o) == [kind |-> "org", id |-> o]
User(u) == [kind |-> "user", id |-> u]

\* An event ties r1 to orgA once the route fills its repo in; another ties r1
\* to orgB; the third names no org.
eA == [id |-> i1, repo |-> None, org |-> orgA]
eB == [id |-> i2, repo |-> r1, org |-> orgB]
eN == [id |-> i3, repo |-> r1, org |-> None]
eOther == [id |-> i3, repo |-> r2, org |-> orgB]

MCEvents == {eA, eB, eN, eOther}
MCMembers == {<<orgA, userA>>, <<orgB, userB>>}

Push(route, cred, events) ==
    [route |-> route, cred |-> cred, actorOk |-> TRUE, events |-> events]

\* The same push by a token bound to another actor.
Misattributed(q) == [q EXCEPT !.actorOk = FALSE]

\* An open push, and users of different orgs who claim the same repo; the last
\* is rejected for an event's repo after its claim.
MixedRequests ==
    {Push(r1, Open, <<eA>>),
     Push(r1, User(userB), <<eB>>),
     Push(r1, User(userA), <<eA, eOther>>)}

\* Pushes to an open server only.
OpenRequests ==
    {Push(r1, Open, <<eA, eN>>), Push(r1, Open, <<eB>>),
     Push(None, Open, <<eB, eN, eB>>)}

\* Open pushes, users who bind the repo by a claim, and tokens of an org, the
\* last of which is bound to another actor than its event's.
SerialRequests ==
    OpenRequests \cup
        {Push(r1, User(userA), <<eA, eN>>), Push(r1, User(userB), <<eB>>),
         Push(None, Open, <<eOther>>), Push(r1, OrgToken(orgA), <<eB>>),
         Misattributed(Push(r1, OrgToken(orgA), <<eA>>))}

\* The handlers are interchangeable.
HandlerSymmetry == Permutations(Handlers)

=============================================================================

---------------------------- MODULE AccessProofs ----------------------------
(***************************************************************************)
(* Proofs about Access for every set of commands, tokens, orgs, repos,     *)
(* users and processes, any number of server starts, requests and crashes. *)
(***************************************************************************)
EXTENDS Access, SequenceTheorems, TLAPS

TableStep == TableNext \/ \E a \in Admins : AdminCrash(a)
ServerStep == (\E legacy \in BOOLEAN, jwt \in JwtModes : Start(legacy, jwt)) \/ Stop
MemberStep ==
    \/ MemberNext
    \/ /\ \E a \in Admins :
            \/ \E o \in Orgs, u \in Users, add \in BOOLEAN : LoadMembers(a, o, u, add)
            \/ MemberCrash(a)
       /\ seen' = seen

\* Every step is of one part of the system, and leaves the others alone.
LEMMA StepKinds ==
    ASSUME [Next]_vars
    PROVE  \/ UNCHANGED <<tableVars, serverVars, members, seen, dataVars>>
           \/ TableStep /\ UNCHANGED <<serverVars, members, seen, dataVars>>
           \/ Request /\ UNCHANGED <<tableVars, members, seen>>
           \/ ServerStep /\ UNCHANGED <<tableVars, members, dataVars>>
           \/ MemberStep /\ UNCHANGED <<tableVars, serverVars, dataVars>>
<1>1. CASE UNCHANGED vars
  BY <1>1 DEF vars, fileVars
<1>2. CASE LoginNext /\ UNCHANGED <<now, tableVars, serverVars, fileVars, seen, dataVars, ops>>
  BY <1>2 DEF fileVars
<1>3. CASE Tick /\ UNCHANGED <<faults, loginVars, tableVars, serverVars, fileVars, seen, dataVars, ops>>
  BY <1>3 DEF fileVars
<1>4. CASE TableNext /\ UNCHANGED <<now, faults, loginVars, serverVars, fileVars, seen, dataVars, ops>>
  BY <1>4 DEF TableStep, fileVars
<1>5. CASE MemberNext /\ UNCHANGED <<now, faults, loginVars, tableVars, serverVars, dataVars, ops>>
  BY <1>5 DEF MemberStep
<1>6. CASE Request /\ UNCHANGED <<now, faults, loginVars, tableVars, fileVars, seen>>
  BY <1>6 DEF fileVars
<1>7. CASE ServerStep /\ UNCHANGED <<now, faults, loginVars, tableVars, fileVars, dataVars, ops>>
  BY <1>7 DEF fileVars
<1>8. CASE /\ (\E a \in Admins : AdminCrash(a)) /\ UNCHANGED fileVars
           /\ UNCHANGED <<now, faults, loginVars, serverVars, seen, dataVars>>
  BY <1>8 DEF TableStep, fileVars
<1>9. CASE /\ \E a \in Admins :
                \/ \E o \in Orgs, u \in Users, add \in BOOLEAN : LoadMembers(a, o, u, add)
                \/ MemberCrash(a)
           /\ UNCHANGED tableVars
           /\ UNCHANGED <<now, faults, loginVars, serverVars, seen, dataVars>>
  BY <1>9 DEF MemberStep
<1> QED
  BY <1>1, <1>2, <1>3, <1>4, <1>5, <1>6, <1>7, <1>8, <1>9 DEF Next, ServerStep

-----------------------------------------------------------------------------
(* Logins. *)

\* An identity whose refresh token the service has minted.
Held == [user : Users, refresh : 1 .. Len(minted), expires : Nat]

ClientLabels == {"idle", "truncate", "write", "ready", "reload", "post"}

LoginTypes ==
    /\ now \in Nat
    /\ minted \in Seq([user : Users, family : Nat])
    /\ live \subseteq 1 .. Len(minted)
    /\ identity \in Held \cup {None}
    /\ hold \in [Clients -> Held \cup {None}]
    /\ cpc \in [Clients -> ClientLabels]

\* A new family is named by a number no family has.
FamiliesOld == \A t \in 1 .. Len(minted) : minted[t].family <= Len(minted)

\* Of each family one token at most is live.
OneLive == \A t, u \in live : minted[t].family = minted[u].family => t = u

\* A process that has tokens to save is the only one to have them, in memory
\* or in the file, and the service takes them.
Saving(c) == cpc[c] \in {"truncate", "write"}
SaverOwns ==
    \A c \in Clients : Saving(c) =>
        /\ hold[c] \in Held /\ hold[c].refresh \in live
        /\ identity # None => identity.refresh # hold[c].refresh
        /\ \A d \in Clients \ {c} : hold[d] # None => hold[d].refresh # hold[c].refresh

PosterHolds == \A c \in Clients : cpc[c] = "post" => hold[c] \in Held /\ hold[c] # None

LoginInv ==
    /\ LoginTypes /\ FamiliesOld /\ OneLive /\ PosterHolds /\ SaverOwns
    /\ StoredTokenUsable

LEMMA LoginStarts == LoginInit /\ now = 0 => LoginInv
<1> SUFFICES ASSUME LoginInit, now = 0 PROVE LoginInv
  OBVIOUS
<1>1. minted = <<>> /\ Len(minted) = 0 /\ live = {}
  BY DEF LoginInit
<1>2. LoginTypes
  BY <1>1 DEF LoginInit, LoginTypes, ClientLabels
<1>3. FamiliesOld /\ OneLive
  BY <1>1 DEF FamiliesOld, OneLive
<1>4. PosterHolds /\ SaverOwns
  BY DEF LoginInit, PosterHolds, SaverOwns, Saving
<1>5. StoredTokenUsable
  BY DEF LoginInit, StoredTokenUsable
<1> QED
  BY <1>2, <1>3, <1>4, <1>5 DEF LoginInv

-----------------------------------------------------------------------------
(* Minting. *)

\* What a new token of family f does to those there are.
LEMMA MintFacts ==
    ASSUME LoginInv, NEW c \in Clients, NEW u \in Users, NEW f \in Nat, Mint(c, u, f)
    PROVE  /\ Len(minted) \in Nat /\ Len(minted') = Len(minted) + 1
           /\ minted' \in Seq([user : Users, family : Nat])
           /\ \A t \in 1 .. Len(minted) : minted'[t] = minted[t]
           /\ minted'[Len(minted) + 1].family = f
           /\ Minted(u) \in Held' /\ Held \subseteq Held'
           /\ Minted(u).refresh = Len(minted) + 1
           /\ hold' \in [Clients -> Held' \cup {None}]
           /\ hold'[c] = Minted(u)
           /\ \A d \in Clients \ {c} : hold'[d] = hold[d]
<1>1. minted' = Append(minted, [user |-> u, family |-> f])
  BY DEF Mint
<1>2. minted \in Seq([user : Users, family : Nat]) /\ now \in Nat /\ Ttl \in Nat
  BY LoginAssumption DEF LoginInv, LoginTypes
<1>3. /\ Len(minted) \in Nat /\ Len(minted') = Len(minted) + 1
      /\ minted' \in Seq([user : Users, family : Nat])
      /\ \A t \in 1 .. Len(minted) : minted'[t] = minted[t]
      /\ minted'[Len(minted) + 1].family = f
  BY <1>1, <1>2
<1>4. Minted(u) \in Held' /\ Minted(u).refresh = Len(minted) + 1
  BY <1>2, <1>3 DEF Minted, Held
<1>5. Held \subseteq Held'
  BY <1>3 DEF Held
<1>6. hold \in [Clients -> Held \cup {None}]
  BY DEF LoginInv, LoginTypes
<1>7. /\ hold' \in [Clients -> Held' \cup {None}]
      /\ hold'[c] = Minted(u)
      /\ \A d \in Clients \ {c} : hold'[d] = hold[d]
  BY <1>4, <1>5, <1>6 DEF Mint
<1> QED
  BY <1>3, <1>4, <1>5, <1>7

\* What identities in the file and in memory are.
LEMMA HeldFacts ==
    ASSUME LoginInv
    PROVE  /\ Len(minted) \in Nat
           /\ \A x \in Held : x.refresh \in 1 .. Len(minted) /\ x.user \in Users
                              /\ Family(x) \in Nat /\ Family(x) <= Len(minted)
           /\ identity # None => identity \in Held
           /\ \A d \in Clients : hold[d] # None => hold[d] \in Held
           /\ live \subseteq 1 .. Len(minted)
<1>1. minted \in Seq([user : Users, family : Nat])
  BY DEF LoginInv, LoginTypes
<1>2. ASSUME NEW x \in Held
      PROVE  x.refresh \in 1 .. Len(minted) /\ x.user \in Users
             /\ Family(x) \in Nat /\ Family(x) <= Len(minted)
  <2>1. x.refresh \in 1 .. Len(minted) /\ x.user \in Users
    BY DEF Held
  <2>2. minted[x.refresh] \in [user : Users, family : Nat]
    BY <1>1, <2>1, ElementOfSeq
  <2>3. minted[x.refresh].family <= Len(minted)
    BY <2>1 DEF LoginInv, FamiliesOld
  <2> QED
    BY <2>1, <2>2, <2>3 DEF Family
<1> QED
  BY <1>1, <1>2 DEF LoginInv, LoginTypes

-----------------------------------------------------------------------------
(* Steps. *)

\* A process gets a new token of family f, in place of any the family has, which
\* no process was about to save.
LEMMA MintStep ==
    ASSUME LoginInv, NEW c \in Clients, NEW u \in Users, NEW f \in Nat, Mint(c, u, f),
           live' = {t \in live : minted[t].family # f} \cup {Len(minted) + 1},
           UNCHANGED <<now, identity, lost>>,
           cpc' = [cpc EXCEPT ![c] = "truncate"], ~Saving(c),
           f <= Len(minted) + 1,
           \A d \in Clients : Saving(d) => Family(hold[d]) # f
    PROVE  LoginInv'
<1> DEFINE n == Len(minted) + 1
<1>1. /\ Len(minted) \in Nat /\ Len(minted') = n /\ minted' \in Seq([user : Users, family : Nat])
      /\ \A t \in 1 .. Len(minted) : minted'[t] = minted[t]
      /\ minted'[n].family = f
      /\ Held \subseteq Held' /\ hold' \in [Clients -> Held' \cup {None}]
      /\ hold'[c] \in Held' /\ hold'[c].refresh = n
      /\ \A d \in Clients \ {c} : hold'[d] = hold[d]
  BY MintFacts
<1>2. /\ \A x \in Held : x.refresh \in 1 .. Len(minted)
      /\ identity # None => identity \in Held
      /\ \A d \in Clients : hold[d] # None => hold[d] \in Held
      /\ live \subseteq 1 .. Len(minted)
  BY HeldFacts
<1>3. /\ cpc'[c] = "truncate" /\ \A d \in Clients \ {c} : cpc'[d] = cpc[d]
      /\ cpc' \in [Clients -> ClientLabels]
  BY DEF LoginInv, LoginTypes, ClientLabels
<1>4. LoginTypes'
  <2>1. live' \subseteq 1 .. n
    <3>1. ASSUME NEW t \in live' PROVE t \in 1 .. n
      <4>1. t = n \/ t \in 1 .. Len(minted)
        BY <1>2
      <4> QED
        BY <1>1, <4>1
    <3> QED
      BY <3>1
  <2>2. identity' \in Held' \cup {None}
    BY <1>1, <1>2
  <2>3. now' \in Nat
    BY DEF LoginInv, LoginTypes
  <2> QED
    BY <1>1, <1>3, <2>1, <2>2, <2>3 DEF LoginTypes
<1>5. FamiliesOld'
  <2>1. ASSUME NEW t \in 1 .. n PROVE minted'[t].family <= n
    <3>1. CASE t = n
      BY <1>1, <3>1
    <3>2. CASE t \in 1 .. Len(minted)
      <4>1. minted[t].family <= Len(minted) /\ minted[t] \in [user : Users, family : Nat]
        BY <3>2, ElementOfSeq DEF LoginInv, FamiliesOld, LoginTypes
      <4> QED
        BY <1>1, <3>2, <4>1
    <3> QED
      BY <1>1, <2>1, <3>1, <3>2
  <2> QED
    BY <1>1, <2>1 DEF FamiliesOld
<1>6. OneLive'
  <2>1. \A t \in live : t # n /\ minted'[t] = minted[t]
    BY <1>1, <1>2
  <2> QED
    BY <1>1, <2>1 DEF LoginInv, OneLive
<1>7. PosterHolds'
  BY <1>1, <1>3 DEF LoginInv, PosterHolds
<1>8. SaverOwns'
  <2>1. ASSUME NEW d \in Clients, Saving(d)'
        PROVE  /\ hold'[d] \in Held' /\ hold'[d].refresh \in live'
               /\ identity' # None => identity'.refresh # hold'[d].refresh
               /\ \A e \in Clients \ {d} : hold'[e] # None => hold'[e].refresh # hold'[d].refresh
    <3>1. CASE d = c
      BY <1>1, <1>2, <3>1
    <3>2. CASE d # c
      <4>1. Saving(d) /\ hold'[d] = hold[d]
        BY <1>1, <1>3, <2>1, <3>2 DEF Saving
      <4>2. /\ hold[d] \in Held /\ hold[d].refresh \in live /\ Family(hold[d]) # f
            /\ identity # None => identity.refresh # hold[d].refresh
            /\ \A e \in Clients \ {d} : hold[e] # None => hold[e].refresh # hold[d].refresh
        BY <4>1 DEF LoginInv, SaverOwns
      <4> QED
        BY <1>1, <1>2, <4>1, <4>2 DEF Family
    <3> QED
      BY <3>1, <3>2
  <2> QED
    BY <2>1 DEF SaverOwns
<1>9. StoredTokenUsable'
  <2>1. ASSUME NEW x \in Held PROVE Family(x)' = Family(x)
    BY <1>1, <1>2 DEF Family
  <2>2. Family(hold[c])' = f
    BY <1>1 DEF Family
  <2>3. SUFFICES ASSUME identity # None
        PROVE  \/ identity.refresh \in live' \/ Family(identity)' \in lost'
               \/ \E d \in Clients : /\ cpc'[d] \in {"truncate", "write"}
                                     /\ hold'[d].refresh \in live'
                                     /\ Family(hold[d])' = Family(identity)'
    BY DEF StoredTokenUsable
  <2>4. Family(identity)' = Family(identity)
    BY <1>2, <2>1, <2>3
  <2>5. CASE identity.refresh \in live
    <3>1. CASE Family(identity) = f
      BY <1>1, <1>3, <2>2, <2>4, <2>5, <3>1 DEF Family
    <3> QED
      BY <2>5, <3>1 DEF Family
  <2>6. CASE Family(identity) \in lost
    BY <2>4, <2>6
  <2>7. ASSUME NEW d \in Clients, cpc[d] \in {"truncate", "write"}, hold[d].refresh \in live,
               Family(hold[d]) = Family(identity)
        PROVE  /\ cpc'[d] \in {"truncate", "write"}
               /\ hold'[d].refresh \in live'
               /\ Family(hold[d])' = Family(identity)'
    <3>1. d # c /\ hold[d] \in Held /\ Family(hold[d]) # f
      BY <2>7 DEF LoginInv, SaverOwns, Saving
    <3>2. hold'[d] = hold[d] /\ cpc'[d] = cpc[d]
      BY <1>1, <1>3, <3>1
    <3> QED
      BY <2>1, <2>4, <2>7, <3>1, <3>2 DEF Family
  <2> QED
    BY <2>3, <2>5, <2>6, <2>7 DEF LoginInv, StoredTokenUsable
<1> QED
  BY <1>4, <1>5, <1>6, <1>7, <1>8, <1>9 DEF LoginInv

\* A step that mints nothing and spends S: what it must establish.
LEMMA SpendStep ==
    ASSUME LoginInv, NEW S, live' = live \ S, UNCHANGED <<now, minted>>,
           identity' \in Held \cup {None}, hold' \in [Clients -> Held \cup {None}],
           cpc' \in [Clients -> ClientLabels], PosterHolds', SaverOwns', StoredTokenUsable'
    PROVE  LoginInv'
<1>1. Held' = Held
  BY DEF Held
<1>2. LoginTypes'
  BY <1>1 DEF LoginInv, LoginTypes
<1>3. FamiliesOld' /\ OneLive'
  BY DEF LoginInv, FamiliesOld, OneLive
<1> QED
  BY <1>2, <1>3 DEF LoginInv

LEMMA LoginStep ==
    ASSUME LoginInv, LoginNext, now' = now
    PROVE  LoginInv'
<1>1. PICK c \in Clients :
        \/ PostRefresh(c) \/ ClientCrash(c)
        \/ \E u \in Users : SignIn(c, u)
        \/ Truncate(c) \/ WriteOut(c) \/ Logout(c)
        \/ RefreshIfNeeded(c) \/ Reload(c) \/ Release(c)
  BY DEF LoginNext
<1>2. /\ Len(minted) \in Nat
      /\ \A x \in Held : x.refresh \in 1 .. Len(minted) /\ x.user \in Users
                         /\ Family(x) \in Nat /\ Family(x) <= Len(minted)
      /\ identity # None => identity \in Held
      /\ \A d \in Clients : hold[d] # None => hold[d] \in Held
      /\ live \subseteq 1 .. Len(minted)
  BY HeldFacts
<1>3. /\ cpc \in [Clients -> ClientLabels] /\ hold \in [Clients -> Held \cup {None}]
      /\ identity \in Held \cup {None}
      /\ minted \in Seq([user : Users, family : Nat])
      /\ PosterHolds /\ SaverOwns /\ StoredTokenUsable /\ FamiliesOld /\ OneLive
  BY DEF LoginInv, LoginTypes
<1> USE <1>2, <1>3
<1>4. ASSUME NEW u \in Users, SignIn(c, u) PROVE LoginInv'
  <2>1. /\ Mint(c, u, Len(minted) + 1) /\ live' = live \cup {Len(minted) + 1}
        /\ UNCHANGED <<now, identity, lost>>
        /\ cpc[c] = "idle" /\ cpc' = [cpc EXCEPT ![c] = "truncate"]
    BY <1>4 DEF SignIn, At
  <2>2. \A t \in live : minted[t].family # Len(minted) + 1
    BY DEF FamiliesOld
  <2>3. live' = {t \in live : minted[t].family # Len(minted) + 1} \cup {Len(minted) + 1}
    BY <2>1, <2>2
  <2>4. ~Saving(c) /\ \A d \in Clients : Saving(d) => Family(hold[d]) # Len(minted) + 1
    BY <2>1, <2>2 DEF Saving, SaverOwns, Family
  <2>5. Len(minted) + 1 \in Nat /\ Len(minted) + 1 <= Len(minted) + 1
    OBVIOUS
  <2> QED
    BY <2>1, <2>3, <2>4, <2>5, MintStep
<1>5. ASSUME PostRefresh(c) PROVE LoginInv'
  <2> DEFINE id == hold[c]
  <2>1. cpc[c] = "post" /\ id \in Held
    BY <1>5 DEF PostRefresh, At, PosterHolds
  <2>2. ASSUME NEW d \in Clients, Saving(d)
        PROVE  d # c /\ hold[d] \in Held /\ hold[d].refresh # id.refresh
    BY <2>1, <2>2 DEF Saving, SaverOwns, PosterHolds
  <2>3. CASE /\ At(c, "post", "truncate") /\ id.refresh \in live
             /\ Mint(c, id.user, Family(id))
             /\ live' = (live \ {id.refresh}) \cup {Len(minted) + 1}
             /\ UNCHANGED <<identity, lost>>
    <3>1. \A t \in live : t = id.refresh <=> minted[t].family = Family(id)
      BY <2>3 DEF OneLive, Family
    <3>2. live' = {t \in live : minted[t].family # Family(id)} \cup {Len(minted) + 1}
      BY <2>3, <3>1
    <3>3. ~Saving(c) /\ \A d \in Clients : Saving(d) => Family(hold[d]) # Family(id)
      BY <2>1, <2>2, <3>1 DEF Saving, SaverOwns, Family
    <3>4. /\ cpc' = [cpc EXCEPT ![c] = "truncate"] /\ UNCHANGED <<now, identity, lost>>
          /\ Mint(c, id.user, Family(id))
          /\ id.user \in Users /\ Family(id) \in Nat /\ Family(id) <= Len(minted) + 1
      BY <2>1, <2>3 DEF At
    <3> QED
      BY <3>2, <3>3, <3>4, MintStep
  <2>4. CASE /\ cpc' = [cpc EXCEPT ![c] = "idle"] /\ UNCHANGED <<identity, minted>>
             /\ hold' = [hold EXCEPT ![c] = None]
             /\ \/ live' = live \ {id.refresh} /\ lost' = lost \cup {Family(id)}
                \/ live' = live \ {} /\ lost' = lost
    <3>1. /\ hold' \in [Clients -> Held \cup {None}] /\ cpc' \in [Clients -> ClientLabels]
          /\ hold'[c] = None /\ cpc'[c] = "idle"
          /\ \A d \in Clients \ {c} : hold'[d] = hold[d] /\ cpc'[d] = cpc[d]
      BY <2>4 DEF ClientLabels
    <3>2. Held' = Held
      BY <2>4 DEF Held
    <3>3. PosterHolds'
      BY <3>1, <3>2 DEF PosterHolds
    <3>4. SaverOwns'
      <4>1. ASSUME NEW d \in Clients, Saving(d)'
            PROVE  /\ d # c /\ Saving(d) /\ hold'[d] = hold[d] /\ hold'[d].refresh \in live'
        BY <2>2, <2>4, <3>1, <4>1 DEF Saving, SaverOwns
      <4> QED
        BY <2>4, <3>1, <3>2, <4>1 DEF SaverOwns
    <3>5. StoredTokenUsable'
      <4>1. CASE identity.refresh \in live \/ Family(identity) \in lost
        BY <2>4, <4>1 DEF StoredTokenUsable, Family
      <4>2. ASSUME NEW d \in Clients, cpc[d] \in {"truncate", "write"},
                   hold[d].refresh \in live, Family(hold[d]) = Family(identity)
            PROVE  /\ cpc'[d] \in {"truncate", "write"}
                   /\ hold'[d].refresh \in live' /\ Family(hold[d])' = Family(identity)'
        BY <2>1, <2>2, <2>4, <3>1, <4>2 DEF Saving, Family
      <4> QED
        BY <2>4, <4>1, <4>2 DEF StoredTokenUsable
    <3> QED
      BY <2>4, <3>1, <3>3, <3>4, <3>5, SpendStep
  <2> QED
    BY <1>5, <2>3, <2>4 DEF PostRefresh, At
<1>6. ASSUME ClientCrash(c) \/ Truncate(c) \/ WriteOut(c) \/ Logout(c)
             \/ RefreshIfNeeded(c) \/ Reload(c) \/ Release(c)
      PROVE  LoginInv'
  <2>1. UNCHANGED <<minted, live>> /\ live' = live \ {}
    BY <1>6 DEF ClientCrash, Truncate, WriteOut, Logout, RefreshIfNeeded, Reload, Release
  <2>2. Held' = Held
    BY <2>1 DEF Held
  <2>3. ASSUME NEW x PROVE Family(x)' = Family(x)
    BY <2>1 DEF Family
  <2>4. CASE ClientCrash(c)
    <3>1. /\ Saving(c) /\ cpc' = [cpc EXCEPT ![c] = "idle"] /\ hold' = [hold EXCEPT ![c] = None]
          /\ lost' = lost \cup {Family(hold[c])} /\ identity' = identity
      BY <2>4 DEF ClientCrash, Saving
    <3>2. /\ hold' \in [Clients -> Held \cup {None}] /\ cpc' \in [Clients -> ClientLabels]
          /\ hold'[c] = None /\ cpc'[c] = "idle"
          /\ \A d \in Clients \ {c} : hold'[d] = hold[d] /\ cpc'[d] = cpc[d]
      BY <3>1 DEF ClientLabels
    <3>3. PosterHolds' /\ SaverOwns'
      BY <2>1, <2>2, <3>1, <3>2 DEF PosterHolds, SaverOwns, Saving
    <3>4. StoredTokenUsable'
      BY <2>1, <2>3, <3>1, <3>2 DEF StoredTokenUsable, Family
    <3> QED
      BY <2>1, <3>1, <3>2, <3>3, <3>4, SpendStep
  <2>5. CASE Truncate(c)
    <3>1. /\ cpc[c] = "truncate" /\ cpc' = [cpc EXCEPT ![c] = "write"] /\ hold' = hold
          /\ identity' = None
      BY <2>5 DEF Truncate, At
    <3>2. /\ cpc' \in [Clients -> ClientLabels]
          /\ \A d \in Clients : Saving(d)' <=> Saving(d)
          /\ \A d \in Clients : cpc'[d] = "post" <=> cpc[d] = "post"
      BY <3>1 DEF ClientLabels, Saving
    <3>3. PosterHolds' /\ SaverOwns' /\ StoredTokenUsable'
      BY <2>1, <2>2, <3>1, <3>2 DEF PosterHolds, SaverOwns, StoredTokenUsable
    <3> QED
      BY <2>1, <3>1, <3>2, <3>3, SpendStep
  <2>6. CASE WriteOut(c)
    <3>1. /\ cpc[c] = "write" /\ cpc' = [cpc EXCEPT ![c] = "ready"] /\ hold' = hold
          /\ identity' = hold[c] /\ lost' = lost
      BY <2>6 DEF WriteOut, At
    <3>2. /\ cpc' \in [Clients -> ClientLabels]
          /\ \A d \in Clients : Saving(d)' <=> Saving(d) /\ d # c
          /\ \A d \in Clients : cpc'[d] = "post" <=> cpc[d] = "post"
      BY <3>1 DEF ClientLabels, Saving
    <3>3. hold[c] \in Held /\ hold[c].refresh \in live
      BY <3>1 DEF SaverOwns, Saving
    <3>4. PosterHolds' /\ StoredTokenUsable'
      BY <2>1, <2>2, <3>1, <3>2, <3>3 DEF PosterHolds, StoredTokenUsable
    <3>5. SaverOwns'
      BY <2>1, <2>2, <3>1, <3>2, <3>3 DEF SaverOwns
    <3> QED
      BY <2>1, <3>1, <3>2, <3>3, <3>4, <3>5, SpendStep
  <2>7. CASE Logout(c)
    <3>1. UNCHANGED <<cpc, hold>> /\ identity' = None
      BY <2>7 DEF Logout
    <3>2. PosterHolds' /\ SaverOwns' /\ StoredTokenUsable'
      BY <2>1, <2>2, <3>1 DEF PosterHolds, SaverOwns, StoredTokenUsable, Saving
    <3> QED
      BY <2>1, <3>1, <3>2, SpendStep
  <2>8. CASE RefreshIfNeeded(c) \/ Reload(c) \/ Release(c)
    <3>1. /\ UNCHANGED <<identity, lost>> /\ ~Saving(c)
          /\ hold'[c] \in {identity, None, hold[c]} /\ hold' = [hold EXCEPT ![c] = hold'[c]]
          /\ cpc'[c] \in {"reload", "ready", "idle", "post"}
          /\ cpc' = [cpc EXCEPT ![c] = cpc'[c]]
          /\ cpc'[c] = "post" => identity # None /\ hold'[c] = identity
      BY <2>8 DEF RefreshIfNeeded, Reload, Release, At, Saving
    <3>2. /\ hold' \in [Clients -> Held \cup {None}] /\ cpc' \in [Clients -> ClientLabels]
          /\ ~Saving(c)'
          /\ \A d \in Clients \ {c} : hold'[d] = hold[d] /\ cpc'[d] = cpc[d]
      BY <3>1 DEF ClientLabels, Saving
    <3>3. PosterHolds'
      BY <2>1, <2>2, <3>1, <3>2 DEF PosterHolds
    <3>4. SaverOwns'
      BY <2>1, <2>2, <3>1, <3>2 DEF SaverOwns, Saving
    <3>5. StoredTokenUsable'
      BY <2>1, <2>3, <3>1, <3>2 DEF StoredTokenUsable, Saving, Family
    <3> QED
      BY <2>1, <3>1, <3>2, <3>3, <3>4, <3>5, SpendStep
  <2> QED
    BY <1>6, <2>4, <2>5, <2>6, <2>7, <2>8
<1> QED
  BY <1>1, <1>4, <1>5, <1>6


LEMMA LoginAnyStep == LoginInv /\ [Next]_vars => LoginInv'
<1> SUFFICES ASSUME LoginInv, [Next]_vars PROVE LoginInv'
  OBVIOUS
<1>1. CASE LoginNext /\ now' = now
  BY <1>1, LoginStep
<1>2. CASE UNCHANGED loginVars /\ now' \in Nat
  BY <1>2 DEF loginVars, LoginInv, LoginTypes, FamiliesOld, OneLive, PosterHolds, SaverOwns,
              StoredTokenUsable, Held, Saving, Family
<1>3. Tick => now' \in Nat
  BY DEF Tick, LoginInv, LoginTypes
<1>4. now \in Nat
  BY DEF LoginInv, LoginTypes
<1> QED
  BY <1>1, <1>2, <1>3, <1>4 DEF Next, vars

\* The refresh token in identity.json can be used, whoever else renewed the login,
\* unless a process is about to save its successor or an answer or a process was lost.
THEOREM LoginUsable == Spec => []StoredTokenUsable
<1>1. Init => LoginInv
  BY LoginStarts DEF Init
<1>2. LoginInv => StoredTokenUsable
  BY DEF LoginInv
<1> QED
  BY <1>1, <1>2, LoginAnyStep, PTL DEF Spec

-----------------------------------------------------------------------------
(* What a token may do. *)

\* What create-token may have issued.
Issuances == [label : Labels, scopes : SUBSET Scope, write : BOOLEAN, actor : Actors \cup {None}]

\* A token of a table is what was asked for when its secret was first issued.
IssuedAs(t) ==
    /\ t.secret \in 1 .. secrets
    /\ t.label = origin[t.secret].label
    /\ t.scopes = origin[t.secret].scopes
    /\ t.write = origin[t.secret].write
    /\ t.actor = origin[t.secret].actor

\* Every table, on disk, in a command's memory or in the server's, is of such
\* tokens; the server's may also have --auth-token.
TablesIssued ==
    /\ secrets \in Nat /\ origin \in Seq(Issuances) /\ Len(origin) = secrets
    /\ \A t \in tokens : IssuedAs(t)
    /\ DOMAIN snap = Admins /\ \A a \in Admins : \A t \in snap[a].table : IssuedAs(t)
    /\ server # None => \A t \in server.table :
          IF t.secret = 0 THEN t.label = LegacyToken.label ELSE IssuedAs(t)

AcceptedIssued ==
    \A p \in accepted : p.by.secret \notin {None, 0} => p.by.secret \in 1 .. secrets

IssueInv == TablesIssued /\ AcceptedIssued /\ AcceptedWithinIssue

\* Secrets are only added, and what they were issued for stays.
Grows == /\ secrets' \in Nat /\ secrets <= secrets'
         /\ \A s \in 1 .. secrets : origin'[s] = origin[s]

LEMMA IssuedStays ==
    ASSUME secrets \in Nat, Grows, NEW t, IssuedAs(t)
    PROVE  IssuedAs(t)'
BY DEF Grows, IssuedAs

LEMMA NewSecretGrows ==
    ASSUME TablesIssued, NEW issue \in Issuances, NewSecret(issue)
    PROVE  /\ Grows /\ secrets' = secrets + 1
           /\ origin' \in Seq(Issuances) /\ Len(origin') = secrets'
           /\ origin'[secrets + 1] = issue
BY DEF TablesIssued, NewSecret, Grows

LEMMA IssueInit == Init => IssueInv
<1> SUFFICES ASSUME Init PROVE IssueInv
  OBVIOUS
<1>1. TablesIssued
  BY DEF Init, TablesIssued, NoSave
<1>2. AcceptedIssued /\ AcceptedWithinIssue
  BY DEF Init, AcceptedIssued, AcceptedWithinIssue
<1> QED
  BY <1>1, <1>2 DEF IssueInv

\* A command that has made a table of issued tokens, perhaps with a new secret.
LEMMA IssuePrepare ==
    ASSUME IssueInv, NEW a \in Admins, NEW table, NEW made, NEW gone,
           Prepare(a, table, made, gone), Grows,
           origin' \in Seq(Issuances), Len(origin') = secrets',
           \A t \in table : IssuedAs(t)',
           UNCHANGED <<serverVars, dataVars>>
    PROVE  IssueInv'
<1>1. /\ tokens' = tokens /\ server' = server /\ accepted' = accepted
      /\ snap' = [snap EXCEPT ![a] = [table |-> table, made |-> made, gone |-> gone]]
  BY DEF Prepare, serverVars, dataVars
<1>2. secrets \in Nat /\ secrets' \in Nat /\ secrets <= secrets'
  BY DEF IssueInv, TablesIssued, Grows
<1>3. \A t \in tokens : IssuedAs(t)'
  BY <1>2, IssuedStays DEF IssueInv, TablesIssued
<1>4. DOMAIN snap' = Admins
  BY <1>1 DEF IssueInv, TablesIssued
<1>5. ASSUME NEW b \in Admins, NEW t \in snap'[b].table PROVE IssuedAs(t)'
  <2>1. CASE b = a
    BY <1>1, <1>5, <2>1 DEF IssueInv, TablesIssued
  <2>2. CASE b # a
    <3>1. t \in snap[b].table
      BY <1>1, <1>5, <2>2 DEF IssueInv, TablesIssued
    <3> QED
      BY <1>2, <3>1, IssuedStays DEF IssueInv, TablesIssued
  <2> QED
    BY <2>1, <2>2
<1>6. ASSUME server' # None, NEW t \in server'.table
      PROVE  IF t.secret = 0 THEN t.label = LegacyToken.label ELSE IssuedAs(t)'
  BY <1>1, <1>2, <1>6, IssuedStays DEF IssueInv, TablesIssued
<1>7. TablesIssued'
  BY <1>1, <1>2, <1>3, <1>4, <1>5, <1>6 DEF TablesIssued
<1>8. AcceptedIssued' /\ AcceptedWithinIssue'
  BY <1>1, <1>2 DEF IssueInv, AcceptedIssued, AcceptedWithinIssue, Grows
<1> QED
  BY <1>7, <1>8 DEF IssueInv

LEMMA RotatedToken ==
    ASSUME TablesIssued, NEW t \in tokens, NEW days, NEW new, new = Rotated(t, days)
    PROVE  /\ new.secret = secrets + 1 /\ new.label = t.label /\ new.scopes = t.scopes
           /\ new.write = t.write /\ new.actor = t.actor
BY DEF Rotated, TablesIssued, IssuedAs

LEMMA IssueTableStep ==
    ASSUME IssueInv, TableStep, UNCHANGED <<serverVars, dataVars>>
    PROVE  IssueInv'
<1>1. /\ secrets \in Nat /\ origin \in Seq(Issuances) /\ Len(origin) = secrets
      /\ \A t \in tokens : IssuedAs(t) /\ TablesIssued
      /\ server' = server /\ accepted' = accepted
  BY DEF IssueInv, TablesIssued, serverVars, dataVars
<1>2. ASSUME NEW a \in Admins, NEW l \in Labels, NEW issue \in Issues, CreateToken(a, l, issue)
      PROVE  IssueInv'
  <2>0. Issued(l, issue) \in Issuances
    BY AccessAssumption DEF Issued, Issuances
  <2>1. /\ NewSecret(Issued(l, issue))
        /\ Prepare(a, tokens \cup {TokenRecord(l, issue)}, {secrets + 1}, {})
    BY <1>2 DEF CreateToken
  <2>2. /\ Grows /\ secrets' = secrets + 1 /\ origin' \in Seq(Issuances) /\ Len(origin') = secrets'
        /\ origin'[secrets + 1] = Issued(l, issue)
    BY <1>1, <2>0, <2>1, NewSecretGrows DEF IssueInv
  <2>3. PICK new : new = TokenRecord(l, issue)
    OBVIOUS
  <2>4. IssuedAs(new)'
    BY <1>1, <2>2, <2>3 DEF TokenRecord, IssuedAs, Issued
  <2>5. \A t \in tokens \cup {new} : IssuedAs(t)'
    BY <1>1, <2>2, <2>4, IssuedStays
  <2> QED
    BY <2>1, <2>2, <2>3, <2>5, IssuePrepare
<1>3. ASSUME NEW a \in Admins, NEW l \in Labels, NEW days, RotateToken(a, l, days)
      PROVE  IssueInv'
  <2>1. PICK t \in tokens :
          /\ NewSecret(origin[t.secret])
          /\ Prepare(a, (tokens \ {t}) \cup {Rotated(t, days)}, {secrets + 1}, {t.secret})
    BY <1>3 DEF RotateToken, Labelled
  <2>2. IssuedAs(t) /\ origin[t.secret] \in Issuances
    BY <1>1, ElementOfSeq DEF IssuedAs
  <2>3. /\ Grows /\ secrets' = secrets + 1 /\ origin' \in Seq(Issuances) /\ Len(origin') = secrets'
        /\ origin'[secrets + 1] = origin[t.secret]
    BY <1>1, <2>1, <2>2, NewSecretGrows DEF IssueInv
  <2>4. PICK new : new = Rotated(t, days)
    OBVIOUS
  <2>5. IssuedAs(new)'
    <3>1. /\ new.secret = secrets + 1 /\ new.label = t.label /\ new.scopes = t.scopes
          /\ new.write = t.write /\ new.actor = t.actor
      BY <2>2, <2>4 DEF Rotated
    <3> QED
      BY <1>1, <2>2, <2>3, <3>1 DEF IssuedAs
  <2>6. \A u \in (tokens \ {t}) \cup {new} : IssuedAs(u)'
    BY <1>1, <2>3, <2>5, IssuedStays
  <2> QED
    BY <2>1, <2>3, <2>4, <2>6, IssuePrepare
<1>4. ASSUME NEW a \in Admins, NEW l \in Labels, RevokeToken(a, l) PROVE IssueInv'
  <2>1. /\ Prepare(a, tokens \ Labelled(tokens, l), {}, Secrets(Labelled(tokens, l)))
        /\ UNCHANGED <<secrets, origin>>
    BY <1>4 DEF RevokeToken
  <2>2. Grows /\ origin' \in Seq(Issuances) /\ Len(origin') = secrets'
    BY <1>1, <2>1 DEF Grows
  <2>3. \A t \in tokens \ Labelled(tokens, l) : IssuedAs(t)'
    BY <1>1, <2>2, IssuedStays
  <2> QED
    BY <2>1, <2>2, <2>3, IssuePrepare
<1>5. ASSUME NEW a \in Admins, TruncateTable(a) \/ WriteTable(a) \/ AdminCrash(a) PROVE IssueInv'
  <2>1. /\ UNCHANGED <<secrets, origin>>
        /\ tokens' \in {tokens, {}, snap[a].table}
        /\ snap' = snap \/ snap' = [snap EXCEPT ![a] = NoSave]
    BY <1>5 DEF TruncateTable, WriteTable, AdminCrash
  <2>2. \A t : IssuedAs(t)' <=> IssuedAs(t)
    BY <2>1 DEF IssuedAs
  <2>3. \A t \in tokens' : IssuedAs(t)
    BY <2>1 DEF IssueInv, TablesIssued
  <2>4. DOMAIN snap' = Admins /\ \A b \in Admins : snap'[b].table \in {snap[b].table, {}}
    BY <2>1 DEF NoSave, IssueInv, TablesIssued
  <2>5. TablesIssued'
    BY <1>1, <2>1, <2>2, <2>3, <2>4 DEF IssueInv, TablesIssued
  <2>6. AcceptedIssued' /\ AcceptedWithinIssue'
    BY <1>1, <2>1 DEF IssueInv, AcceptedIssued, AcceptedWithinIssue
  <2> QED
    BY <2>5, <2>6 DEF IssueInv
<1> QED
  BY <1>2, <1>3, <1>4, <1>5 DEF TableStep, TableNext

\* A scope that matches names everything, the repo of the route or its org.
LEMMA ScopeFacts ==
    ASSUME NEW s \in Scope, NEW repo, ScopeMatches(s, repo)
    PROVE  \/ s = <<"all">>
           \/ repo # None /\ s = <<"repo", repo>>
           \/ repo # None /\ s = <<"org", bound[repo]>> /\ bound[repo] \in Orgs
<1>1. ASSUME repo # None, s = <<"org", bound[repo]>> PROVE bound[repo] \in Orgs
  <2>1. s[1] = "org" /\ s[2] = bound[repo]
    BY <1>1
  <2>2. CASE s = <<"all">>
    BY <2>1, <2>2
  <2>3. ASSUME NEW r \in Repos, s = <<"repo", r>> PROVE FALSE
    BY <2>1, <2>3
  <2>4. ASSUME NEW o \in Orgs, s = <<"org", o>> PROVE bound[repo] \in Orgs
    BY <2>1, <2>4
  <2> QED
    BY <2>2, <2>3, <2>4 DEF Scope
<1> QED
  BY <1>1 DEF ScopeMatches

\* Who the gate admits: anyone when there is none, a token of the table, or a
\* Supabase user on a route that has a repo.
LEMMA AdmittedKinds ==
    ASSUME NEW b, NEW repo, NEW write, NEW id \in Authorized(b, repo, write)
    PROVE  \/ Open /\ id = Anyone
           \/ ~Open /\ \E t \in server.table :
                 id = TokenIdentity(t) /\ Permits(t, write) /\ InScope(t, repo)
           \/ ~Open /\ repo # None /\ id = UserIdentity(b.user)
<1> DEFINE known == {t \in server.table : t.secret = b.secret}
<1>1. CASE Open
  BY <1>1 DEF Authorized
<1>2. CASE ~Open /\ known # {}
  BY <1>2 DEF Authorized
<1>3. CASE ~Open /\ known = {}
  BY <1>3 DEF Authorized
<1> QED
  BY <1>1, <1>2, <1>3

\* A token of the server's table that is admitted may do what it was issued for.
LEMMA TokenWithinIssue ==
    ASSUME IssueInv, server # None, NEW t \in server.table, t.secret # 0,
           NEW repo, Permits(t, TRUE), InScope(t, repo)
    PROVE  /\ t.secret \in 1 .. secrets
           /\ origin[t.secret].label = t.label
           /\ origin[t.secret].write /\ origin[t.secret].actor = t.actor
           /\ \/ <<"all">> \in origin[t.secret].scopes
              \/ repo # None /\ <<"repo", repo>> \in origin[t.secret].scopes
              \/ /\ repo # None /\ bound[repo] \in Orgs
                 /\ <<"org", bound[repo]>> \in origin[t.secret].scopes
<1>1. IssuedAs(t)
  BY DEF IssueInv, TablesIssued
<1>2. origin[t.secret] \in Issuances
  BY <1>1, ElementOfSeq DEF IssuedAs, IssueInv, TablesIssued
<1>3. t.scopes \subseteq Scope
  BY <1>1, <1>2 DEF IssuedAs, Issuances
<1>4. PICK s \in t.scopes : ScopeMatches(s, repo)
  BY DEF InScope
<1>5. \/ s = <<"all">>
      \/ repo # None /\ s = <<"repo", repo>>
      \/ repo # None /\ s = <<"org", bound[repo]>> /\ bound[repo] \in Orgs
  BY <1>3, <1>4, ScopeFacts
<1>6. t.write
  BY DEF Permits
<1> QED
  BY <1>1, <1>4, <1>5, <1>6 DEF IssuedAs

\* Who is admitted with a token may do what it was issued for.
LEMMA AdmittedWithinIssue ==
    ASSUME IssueInv, server # None, NEW b, NEW repo, NEW id \in Authorized(b, repo, TRUE),
           id.secret \notin {None, 0}
    PROVE  /\ id.secret \in 1 .. secrets /\ id.user = None
           /\ origin[id.secret].write /\ origin[id.secret].actor = id.actor
           /\ \/ <<"all">> \in origin[id.secret].scopes
              \/ repo # None /\ <<"repo", repo>> \in origin[id.secret].scopes
              \/ /\ repo # None /\ bound[repo] \in Orgs
                 /\ <<"org", bound[repo]>> \in origin[id.secret].scopes
<1>1. PICK t \in server.table : /\ id = TokenIdentity(t)
                               /\ Permits(t, TRUE) /\ InScope(t, repo)
  <2>1. \/ id = Anyone
        \/ \E t \in server.table :
              id = TokenIdentity(t) /\ Permits(t, TRUE) /\ InScope(t, repo)
        \/ id = UserIdentity(b.user)
    BY AdmittedKinds, Zenon
  <2>2. Anyone.secret = None /\ UserIdentity(b.user).secret = None
    BY DEF Anyone, UserIdentity
  <2> QED
    BY <2>1, <2>2, Zenon
<1>2. t.secret = id.secret /\ t.actor = id.actor /\ id.user = None /\ t.secret # 0
  BY <1>1 DEF TokenIdentity
<1> QED
  BY <1>1, <1>2, TokenWithinIssue

\* What a stored push is: the entry of an identity the gate admitted, in a repo
\* that stays in the org it was bound to.
Stored(p) ==
    \E b, r, e, route :
        \E id \in Authorized(b, route, TRUE) :
            /\ route \in {r, None} /\ r \in Repos
            /\ ActorAllowed(id, e)
            /\ p = Entry(id, r, e, bound'[r])
            /\ bound[r] # None => bound'[r] = bound[r]
            /\ id.user # None => <<bound'[r], id.user>> \in Members

\* What a new audit entry is: of an identity the gate admitted to write.
Recorded(x) ==
    \E b \in Bearers, route \in Repos \cup {None} :
        \E id \in Authorized(b, route, TRUE) :
            ~Open /\ x = [label |-> id.label, actor |-> id.actor, repo |-> route]

BoundTyped == bound \in [Repos -> Orgs \cup {None}]

\* A request stores at most one push, and rebinds no repo.
LEMMA RequestFacts ==
    ASSUME BoundTyped, Request
    PROVE  /\ server # None /\ server' = server
           /\ \A p \in accepted' \ accepted : Stored(p)
           /\ BoundTyped' /\ \A r \in Repos : bound[r] # None => bound'[r] = bound[r]
           /\ \A x \in audit' \ audit : Recorded(x)
           /\ cache' \in {cache, Members} /\ dead' = dead
<1>1. server # None /\ server' = server /\ dead' = dead
  BY DEF Request
<1>2. PICK b \in Bearers :
        \/ \E r \in Repos, e \in Events : PushRepo(b, r, e) \/ PushAny(b, r, e)
        \/ \E r \in Repos : ListRepo(b, r)
        \/ LocalHistory(b)
  BY DEF Request
<1>3. ASSUME NEW r \in Repos, NEW e \in Events, PushRepo(b, r, e)
      PROVE  /\ \A p \in accepted' \ accepted : Stored(p)
             /\ BoundTyped' /\ \A q \in Repos : bound[q] # None => bound'[q] = bound[q]
             /\ \A x \in audit' \ audit : Recorded(x)
             /\ cache' \in {cache, Members}
  <2>1. PICK id \in Authorized(b, r, TRUE) :
          LET orgs == BoundTo(id, r, e) IN
          /\ AskMembers(id)
          /\ audit' \in Audited(id, r)
          /\ IF orgs = {} THEN UNCHANGED <<bound, accepted>>
             ELSE \E o \in orgs :
                    LET first == IF o = None THEN e.org ELSE o
                        stored == ActorAllowed(id, e)
                    IN
                    /\ bound' = [bound EXCEPT ![r] = IF stored THEN first ELSE o]
                    /\ accepted' = IF stored THEN accepted \cup {Entry(id, r, e, first)}
                                   ELSE accepted
    BY <1>3 DEF PushRepo
  <2>2. /\ \A x \in audit' \ audit : Recorded(x)
        /\ cache' \in {cache, Members}
    BY <2>1 DEF Audited, AskMembers, Recorded
  <2>3. CASE UNCHANGED <<bound, accepted>>
    BY <2>2, <2>3 DEF BoundTyped
  <2>4. ASSUME NEW o \in BoundTo(id, r, e),
               bound' = [bound EXCEPT ![r] = IF ActorAllowed(id, e)
                                             THEN (IF o = None THEN e.org ELSE o) ELSE o],
               accepted' = IF ActorAllowed(id, e)
                           THEN accepted \cup {Entry(id, r, e, IF o = None THEN e.org ELSE o)}
                           ELSE accepted
        PROVE  /\ \A p \in accepted' \ accepted : Stored(p)
               /\ BoundTyped' /\ \A q \in Repos : bound[q] # None => bound'[q] = bound[q]
    <3>1. e.org \in Orgs \cup {None} /\ bound[r] \in Orgs \cup {None}
      BY DEF Events, BoundTyped
    <3>2. /\ o \in Orgs \cup {None}
          /\ bound[r] # None => o = bound[r]
          /\ id.user # None => o # None /\ <<o, id.user>> \in Members
      BY <3>1 DEF BoundTo
    <3>3. /\ bound'[r] = IF ActorAllowed(id, e) THEN (IF o = None THEN e.org ELSE o) ELSE o
          /\ \A q \in Repos \ {r} : bound'[q] = bound[q]
          /\ BoundTyped'
      BY <2>4, <3>1, <3>2 DEF BoundTyped
    <3>4. bound[r] # None => bound'[r] = bound[r]
      BY <3>2, <3>3
    <3>5. ASSUME NEW p \in accepted' \ accepted PROVE Stored(p)
      <4>1. ActorAllowed(id, e) /\ p = Entry(id, r, e, bound'[r])
        BY <2>4, <3>3, <3>5
      <4>2. id.user # None => <<bound'[r], id.user>> \in Members
        BY <3>2, <3>3
      <4> QED
        BY <2>1, <3>4, <4>1, <4>2 DEF Stored
    <3> QED
      BY <3>3, <3>4, <3>5
  <2> QED
    BY <2>1, <2>2, <2>3, <2>4
<1>4. ASSUME NEW r \in Repos, NEW e \in Events, PushAny(b, r, e)
      PROVE  /\ \A p \in accepted' \ accepted : Stored(p)
             /\ BoundTyped' /\ \A q \in Repos : bound[q] # None => bound'[q] = bound[q]
             /\ \A x \in audit' \ audit : Recorded(x)
             /\ cache' \in {cache, Members}
  <2>1. PICK id \in Authorized(b, None, TRUE) :
          /\ audit' \in Audited(id, None)
          /\ IF ActorAllowed(id, e)
             THEN /\ bound' = [bound EXCEPT ![r] = IF @ = None THEN e.org ELSE @]
                  /\ accepted' = accepted \cup {Entry(id, r, e, bound'[r])}
             ELSE UNCHANGED <<bound, accepted>>
          /\ UNCHANGED cache
    BY <1>4 DEF PushAny
  <2>2. /\ \A x \in audit' \ audit : Recorded(x)
        /\ cache' = cache
    BY <2>1 DEF Audited, Recorded
  <2>3. e.org \in Orgs \cup {None} /\ bound[r] \in Orgs \cup {None}
    BY DEF Events, BoundTyped
  <2>4. BoundTyped' /\ \A q \in Repos : bound[q] # None => bound'[q] = bound[q]
    BY <2>1, <2>3 DEF BoundTyped
  <2>5. id.user = None
    <3>1. id = Anyone \/ \E t \in server.table : id = TokenIdentity(t)
      BY AdmittedKinds, Zenon
    <3> QED
      BY <3>1 DEF TokenIdentity, Anyone
  <2>6. ASSUME NEW p \in accepted' \ accepted PROVE Stored(p)
    <3>1. ActorAllowed(id, e) /\ p = Entry(id, r, e, bound'[r])
      BY <2>1, <2>6
    <3> QED
      BY <2>1, <2>4, <2>5, <3>1 DEF Stored
  <2> QED
    BY <2>2, <2>4, <2>6
<1>5. ASSUME (\E r \in Repos : ListRepo(b, r)) \/ LocalHistory(b)
      PROVE  /\ accepted' = accepted /\ bound' = bound
             /\ \A x \in audit' \ audit : Recorded(x)
             /\ cache' \in {cache, Members}
  BY <1>5 DEF ListRepo, LocalHistory, AskMembers, Audited, Recorded, dataVars
<1>6. accepted' = accepted /\ bound' = bound =>
        /\ \A p \in accepted' \ accepted : Stored(p)
        /\ BoundTyped' /\ \A r \in Repos : bound[r] # None => bound'[r] = bound[r]
  BY DEF BoundTyped
<1> QED
  BY <1>1, <1>2, <1>3, <1>4, <1>5, <1>6

\* No step but a request stores, audits or binds anything.
LEMMA OnlyRequests ==
    ASSUME [Next]_vars
    PROVE  Request \/ UNCHANGED dataVars
BY StepKinds, Zenon

LEMMA IssueRequestStep ==
    ASSUME IssueInv, BoundTyped, Request, UNCHANGED tableVars
    PROVE  IssueInv'
<1>1. /\ tokens' = tokens /\ secrets' = secrets /\ snap' = snap /\ origin' = origin
      /\ server # None /\ server' = server
  BY RequestFacts DEF tableVars
<1>2. TablesIssued'
  BY <1>1 DEF IssueInv, TablesIssued, IssuedAs
<1>3. ASSUME NEW p \in accepted' \ accepted, p.by.secret \notin {None, 0}
      PROVE  /\ p.by.secret \in 1 .. secrets
             /\ origin[p.by.secret].write
             /\ origin[p.by.secret].actor \in {None, p.actor}
             /\ {<<"all">>, <<"repo", p.repo>>, <<"org", p.org>>}
                   \cap origin[p.by.secret].scopes # {}
  <2>1. PICK b, r, e, route :
            \E id \in Authorized(b, route, TRUE) :
               /\ route \in {r, None} /\ r \in Repos
               /\ ActorAllowed(id, e)
               /\ p = Entry(id, r, e, bound'[r])
               /\ bound[r] # None => bound'[r] = bound[r]
    BY <1>3, RequestFacts DEF Stored
  <2>2. PICK id \in Authorized(b, route, TRUE) :
               /\ route \in {r, None} /\ r \in Repos
               /\ ActorAllowed(id, e)
               /\ p = Entry(id, r, e, bound'[r])
               /\ bound[r] # None => bound'[r] = bound[r]
    BY <2>1
  <2>3. p.by = id /\ p.actor = e.actor /\ p.repo = r /\ p.org = bound'[r]
    BY <2>2 DEF Entry
  <2>4. id.secret \notin {None, 0}
    BY <1>3, <2>3
  <2>5. /\ id.secret \in 1 .. secrets
        /\ origin[id.secret].write /\ origin[id.secret].actor = id.actor
        /\ \/ <<"all">> \in origin[id.secret].scopes
           \/ route # None /\ <<"repo", route>> \in origin[id.secret].scopes
           \/ /\ route # None /\ bound[route] \in Orgs
              /\ <<"org", bound[route]>> \in origin[id.secret].scopes
    BY <1>1, <2>4, AdmittedWithinIssue, Zenon
  <2>6. route # None => route = r
    BY <2>2
  <2>7. bound[r] \in Orgs => bound'[r] = bound[r]
    BY <2>2, AccessAssumption
  <2>8. {<<"all">>, <<"repo", r>>, <<"org", bound'[r]>>} \cap origin[id.secret].scopes # {}
    BY <2>5, <2>6, <2>7
  <2> QED
    BY <2>2, <2>3, <2>5, <2>8 DEF ActorAllowed
<1>4. AcceptedIssued'
  BY <1>1, <1>3 DEF IssueInv, AcceptedIssued
<1>5. AcceptedWithinIssue'
  BY <1>1, <1>3 DEF IssueInv, AcceptedWithinIssue
<1> QED
  BY <1>2, <1>4, <1>5 DEF IssueInv

\* A server that starts has the table of the file and perhaps --auth-token.
LEMMA IssueServerStep ==
    ASSUME IssueInv, ServerStep, UNCHANGED <<tableVars, dataVars>>
    PROVE  IssueInv'
<1>1. /\ tokens' = tokens /\ secrets' = secrets /\ snap' = snap /\ origin' = origin
      /\ accepted' = accepted
  BY DEF tableVars, dataVars
<1>2. ASSUME server' # None, NEW t \in server'.table
      PROVE  IF t.secret = 0 THEN t.label = LegacyToken.label ELSE IssuedAs(t)
  <2>1. PICK legacy \in BOOLEAN, jwt \in JwtModes : Start(legacy, jwt)
    BY <1>2 DEF ServerStep, Stop
  <2>2. server'.table \subseteq tokens \cup {LegacyToken}
    BY <2>1 DEF Start
  <2>3. LegacyToken.secret = 0
    BY DEF LegacyToken
  <2> QED
    BY <1>2, <2>2, <2>3 DEF IssueInv, TablesIssued, IssuedAs
<1>3. \A t : IssuedAs(t)' <=> IssuedAs(t)
  BY <1>1 DEF IssuedAs
<1>4. TablesIssued'
  BY <1>1, <1>2, <1>3 DEF IssueInv, TablesIssued
<1> QED
  BY <1>1, <1>4 DEF IssueInv, AcceptedIssued, AcceptedWithinIssue

LEMMA IssueUnchanged ==
    ASSUME IssueInv, UNCHANGED <<tableVars, server, accepted>>
    PROVE  IssueInv'
BY DEF IssueInv, TablesIssued, IssuedAs, AcceptedIssued, AcceptedWithinIssue, tableVars

LEMMA IssueStep == IssueInv /\ BoundTyped /\ [Next]_vars => IssueInv'
<1> SUFFICES ASSUME IssueInv, BoundTyped, [Next]_vars PROVE IssueInv'
  OBVIOUS
<1>1. CASE TableStep /\ UNCHANGED <<serverVars, members, seen, dataVars>>
  BY <1>1, IssueTableStep
<1>2. CASE Request /\ UNCHANGED <<tableVars, members, seen>>
  BY <1>2, IssueRequestStep
<1>3. CASE ServerStep /\ UNCHANGED <<tableVars, members, dataVars>>
  BY <1>3, IssueServerStep
<1>4. CASE UNCHANGED <<tableVars, serverVars, dataVars>>
  BY <1>4, IssueUnchanged DEF serverVars, dataVars
<1> QED
  BY <1>1, <1>2, <1>3, <1>4, StepKinds, Zenon

-----------------------------------------------------------------------------
(* Members, bindings and the audit log. *)

\* What the server believes of the members, once it has asked, the file has said
\* since it started.
MemberInv == BoundTyped /\ members \subseteq seen /\ Members \subseteq seen

LEMMA MemberInit == Init => MemberInv
BY DEF Init, MemberInv, BoundTyped, Members

LEMMA MemberStays == MemberInv /\ [Next]_vars => MemberInv'
<1> SUFFICES ASSUME MemberInv, [Next]_vars PROVE MemberInv'
  OBVIOUS
<1>1. BoundTyped'
  BY OnlyRequests, RequestFacts DEF MemberInv, BoundTyped, dataVars
<1>2. CASE UNCHANGED <<serverVars, members, seen>>
  BY <1>1, <1>2 DEF MemberInv, Members, serverVars
<1>3. CASE Request /\ UNCHANGED <<members, seen>>
  <2>1. cache' \in {cache, Members}
    BY <1>3, RequestFacts DEF MemberInv
  <2> QED
    BY <1>1, <1>3, <2>1 DEF MemberInv, Members
<1>4. CASE ServerStep /\ members' = members
  BY <1>1, <1>4 DEF ServerStep, Start, Stop, MemberInv, Members
<1>5. CASE MemberStep /\ UNCHANGED serverVars
  BY <1>1, <1>5 DEF MemberStep, MemberNext, LoadMembers, MemberCrash, MemberInv, Members, serverVars
<1> QED
  BY <1>2, <1>3, <1>4, <1>5, StepKinds, Zenon

\* Every push stored under a token is within what that token was first issued for,
\* whatever was rotated, revoked or edited while commands and servers ran.
THEOREM PushesWithinIssue == Spec => []AcceptedWithinIssue
<1>1. Init => IssueInv /\ MemberInv
  BY IssueInit, MemberInit
<1>2. IssueInv /\ MemberInv /\ [Next]_vars => IssueInv' /\ MemberInv'
  BY IssueStep, MemberStays DEF MemberInv
<1>3. IssueInv => AcceptedWithinIssue
  BY DEF IssueInv
<1> QED
  BY <1>1, <1>2, <1>3, PTL DEF Spec

\* A user's push is stored only where the member file has named the user since the
\* server started, and no request moves a bound repo.
THEOREM MembersOnly == Spec => RemovedMemberStaysOut
<1> DEFINE A == /\ \A p \in accepted' \ accepted : p.by.user # None =>
                      <<bound'[p.repo], p.by.user>> \in seen
                /\ \A r \in Repos : bound[r] # None => bound'[r] = bound[r]
<1>1. MemberInv /\ [Next]_vars => A
  <2> SUFFICES ASSUME MemberInv, [Next]_vars PROVE A
    OBVIOUS
  <2>1. CASE UNCHANGED dataVars
    BY <2>1 DEF dataVars
  <2>2. CASE Request
    <3>1. ASSUME NEW p \in accepted' \ accepted, p.by.user # None
          PROVE  <<bound'[p.repo], p.by.user>> \in seen
      <4>1. PICK b, r, e, route : \E id \in Authorized(b, route, TRUE) :
                /\ p = Entry(id, r, e, bound'[r])
                /\ id.user # None => <<bound'[r], id.user>> \in Members
        BY <2>2, <3>1, RequestFacts DEF Stored, MemberInv
      <4>2. PICK id \in Authorized(b, route, TRUE) :
                /\ p = Entry(id, r, e, bound'[r])
                /\ id.user # None => <<bound'[r], id.user>> \in Members
        BY <4>1
      <4>3. p.by = id /\ p.repo = r
        BY <4>2 DEF Entry
      <4> QED
        BY <3>1, <4>2, <4>3 DEF MemberInv
    <3> QED
      BY <2>2, <3>1, RequestFacts DEF MemberInv
  <2> QED
    BY <2>1, <2>2, OnlyRequests, Zenon
<1>2. Init => MemberInv
  BY MemberInit
<1>3. MemberInv /\ [Next]_vars => MemberInv'
  BY MemberStays
<1> QED
  BY <1>1, <1>2, <1>3, PTL DEF Spec, RemovedMemberStaysOut

\* A process that may present its access token holds an identity of a user.
ReadyHolds == \A c \in Clients : cpc[c] = "ready" => hold[c] \in Held

LEMMA ReadyStays == LoginInv /\ ReadyHolds /\ [Next]_vars => ReadyHolds'
<1> SUFFICES ASSUME LoginInv, ReadyHolds, [Next]_vars PROVE ReadyHolds'
  OBVIOUS
<1>1. CASE UNCHANGED loginVars
  BY <1>1 DEF ReadyHolds, Held, loginVars
<1>2. CASE LoginNext
  <2>1. PICK c \in Clients :
          \/ PostRefresh(c) \/ ClientCrash(c)
          \/ \E u \in Users : SignIn(c, u)
          \/ Truncate(c) \/ WriteOut(c) \/ Logout(c)
          \/ RefreshIfNeeded(c) \/ Reload(c) \/ Release(c)
    BY <1>2 DEF LoginNext
  <2>2. /\ cpc \in [Clients -> ClientLabels] /\ hold \in [Clients -> Held \cup {None}]
        /\ identity \in Held \cup {None} /\ minted \in Seq([user : Users, family : Nat])
        /\ PosterHolds /\ SaverOwns
    BY DEF LoginInv, LoginTypes
  <2>3. Len(minted) \in Nat /\ Len(minted') \in Nat /\ Len(minted) <= Len(minted')
    <3>1. minted' = minted \/ \E x : minted' = Append(minted, x)
      BY <2>1, Zenon DEF PostRefresh, ClientCrash, SignIn, Truncate, WriteOut, Logout,
                         RefreshIfNeeded, Reload, Release, Mint
    <3> QED
      BY <2>2, <3>1
  <2>4. Held \subseteq Held'
    BY <2>3 DEF Held
  <2>5. \A d \in Clients \ {c} : cpc'[d] = cpc[d] /\ hold'[d] = hold[d]
    BY <2>1, <2>2 DEF PostRefresh, ClientCrash, SignIn, Truncate, WriteOut, Logout,
                      RefreshIfNeeded, Reload, Release, Mint, At
  <2>6. cpc'[c] = "ready" => hold'[c] \in Held
    BY <2>1, <2>2 DEF PostRefresh, ClientCrash, SignIn, Truncate, WriteOut, Logout,
                      RefreshIfNeeded, Reload, Release, At, SaverOwns, Saving, ReadyHolds
  <2> QED
    BY <2>4, <2>5, <2>6 DEF ReadyHolds
<1> QED
  BY <1>1, <1>2 DEF Next, vars

\* An entry of the audit log, within what a token of its label was issued for.
Within(x) ==
    x.label \in Labels \ (Users \cup {LegacyToken.label}) =>
        \E s \in 1 .. secrets :
            /\ origin[s].label = x.label /\ origin[s].actor = x.actor
            /\ origin[s].write
            /\ \/ <<"all">> \in origin[s].scopes
               \/ /\ x.repo # None
                  /\ {<<"repo", x.repo>>, <<"org", bound[x.repo]>>} \cap origin[s].scopes # {}

AuditInv == \A x \in audit : x.repo \in Repos \cup {None} /\ Within(x)

\* Secrets are only added, whatever the step.
LEMMA AlwaysGrows == TablesIssued /\ [Next]_vars => Grows
<1> SUFFICES ASSUME TablesIssued, [Next]_vars PROVE Grows
  OBVIOUS
<1>1. CASE UNCHANGED tableVars
  BY <1>1 DEF tableVars, TablesIssued, Grows
<1>2. CASE TableStep
  <2>1. \/ UNCHANGED <<secrets, origin>>
        \/ \E issued : secrets' = secrets + 1 /\ origin' = Append(origin, issued)
    BY <1>2, Zenon DEF TableStep, TableNext, CreateToken, RotateToken, RevokeToken, TruncateTable,
                WriteTable, AdminCrash, NewSecret
  <2> QED
    BY <2>1 DEF TablesIssued, Grows
<1> QED
  BY <1>1, <1>2, StepKinds, Zenon

\* An entry stays within what its token was issued for: no secret is forgotten and
\* no repo rebound.
LEMMA WithinStays ==
    ASSUME TablesIssued, BoundTyped, Grows, BoundTyped',
           \A r \in Repos : bound[r] # None => bound'[r] = bound[r],
           NEW x, x.repo \in Repos \cup {None}, Within(x)
    PROVE  Within(x)'
<1> SUFFICES ASSUME x.label \in Labels \ (Users \cup {LegacyToken.label})
             PROVE  \E s \in 1 .. secrets' :
                      /\ origin'[s].label = x.label /\ origin'[s].actor = x.actor
                      /\ origin'[s].write
                      /\ \/ <<"all">> \in origin'[s].scopes
                         \/ /\ x.repo # None
                            /\ {<<"repo", x.repo>>, <<"org", bound'[x.repo]>>}
                                  \cap origin'[s].scopes # {}
  BY DEF Within, LegacyToken
<1>1. PICK s \in 1 .. secrets :
          /\ origin[s].label = x.label /\ origin[s].actor = x.actor
          /\ origin[s].write
          /\ \/ <<"all">> \in origin[s].scopes
             \/ /\ x.repo # None
                /\ {<<"repo", x.repo>>, <<"org", bound[x.repo]>>} \cap origin[s].scopes # {}
  BY DEF Within
<1>2. s \in 1 .. secrets' /\ origin'[s] = origin[s]
  BY DEF Grows, TablesIssued
<1>3. origin[s].scopes \subseteq Scope
  <2>1. origin[s] \in Issuances
    BY ElementOfSeq DEF TablesIssued
  <2> QED
    BY <2>1 DEF Issuances
<1>4. ASSUME x.repo # None, <<"org", bound[x.repo]>> \in origin[s].scopes
      PROVE  bound'[x.repo] = bound[x.repo]
  <2>1. ScopeMatches(<<"org", bound[x.repo]>>, x.repo)
    BY <1>4 DEF ScopeMatches
  <2>2. bound[x.repo] \in Orgs
    BY <1>3, <1>4, <2>1, ScopeFacts
  <2> QED
    BY <1>4, <2>2, AccessAssumption
<1> QED
  BY <1>1, <1>2, <1>4

\* What a request records is within what its token was issued for.
LEMMA RecordedWithin ==
    ASSUME IssueInv, LoginInv, ReadyHolds, server # None, NEW x, Recorded(x)
    PROVE  x.repo \in Repos \cup {None} /\ Within(x)
<1>1. PICK b \in Bearers, route \in Repos \cup {None} :
        \E id \in Authorized(b, route, TRUE) :
            ~Open /\ x = [label |-> id.label, actor |-> id.actor, repo |-> route]
  BY DEF Recorded
<1>2. PICK id \in Authorized(b, route, TRUE) :
            ~Open /\ x = [label |-> id.label, actor |-> id.actor, repo |-> route]
  BY <1>1
<1>3. x.repo = route /\ x.label = id.label /\ x.actor = id.actor
  BY <1>2
<1>4. \/ \E t \in server.table :
            id = TokenIdentity(t) /\ Permits(t, TRUE) /\ InScope(t, route)
      \/ id = UserIdentity(b.user) /\ b.user # None
  BY <1>2 DEF Authorized
<1>5. CASE id = UserIdentity(b.user) /\ b.user # None
  <2>1. PICK c \in Clients : cpc[c] = "ready" /\ b.user = hold[c].user
    BY <1>5 DEF Bearers
  <2>2. b.user \in Users
    BY <2>1 DEF ReadyHolds, Held
  <2> QED
    BY <1>3, <1>5, <2>2 DEF UserIdentity, Within
<1>6. ASSUME NEW t \in server.table, id = TokenIdentity(t), t.secret = 0
      PROVE  Within(x)
  <2>1. x.label = LegacyToken.label
    BY <1>3, <1>6 DEF TokenIdentity, IssueInv, TablesIssued
  <2> QED
    BY <2>1 DEF Within
<1>7. ASSUME NEW t \in server.table, id = TokenIdentity(t), t.secret # 0,
             Permits(t, TRUE), InScope(t, route)
      PROVE  Within(x)
  <2>1. x.label = t.label /\ x.actor = t.actor
    BY <1>3, <1>7 DEF TokenIdentity
  <2>2. /\ t.secret \in 1 .. secrets
        /\ origin[t.secret].label = t.label
        /\ origin[t.secret].write /\ origin[t.secret].actor = t.actor
        /\ \/ <<"all">> \in origin[t.secret].scopes
           \/ route # None /\ <<"repo", route>> \in origin[t.secret].scopes
           \/ /\ route # None /\ bound[route] \in Orgs
              /\ <<"org", bound[route]>> \in origin[t.secret].scopes
    BY <1>7, TokenWithinIssue
  <2> QED
    BY <1>3, <2>1, <2>2 DEF Within
<1> QED
  BY <1>3, <1>4, <1>5, <1>6, <1>7

LEMMA AuditStays ==
    AuditInv /\ IssueInv /\ LoginInv /\ ReadyHolds /\ BoundTyped /\ [Next]_vars => AuditInv'
<1> SUFFICES ASSUME AuditInv, IssueInv, LoginInv, ReadyHolds, BoundTyped, [Next]_vars
             PROVE  AuditInv'
  OBVIOUS
<1>1. TablesIssued /\ Grows
  BY AlwaysGrows DEF IssueInv
<1>2. BoundTyped' /\ \A r \in Repos : bound[r] # None => bound'[r] = bound[r]
  BY OnlyRequests, RequestFacts DEF BoundTyped, dataVars
<1>3. ASSUME NEW x \in audit PROVE x.repo \in Repos \cup {None} /\ Within(x)'
  BY <1>1, <1>2, <1>3, WithinStays DEF AuditInv
<1>4. CASE UNCHANGED dataVars
  BY <1>3, <1>4 DEF AuditInv, dataVars
<1>5. CASE Request
  <2>1. ASSUME NEW x \in audit' \ audit PROVE x.repo \in Repos \cup {None} /\ Within(x)'
    <3>1. Recorded(x) /\ server # None
      BY <1>5, <2>1, RequestFacts
    <3>2. x.repo \in Repos \cup {None} /\ Within(x)
      BY <3>1, RecordedWithin
    <3> QED
      BY <1>1, <1>2, <3>2, WithinStays
  <2> QED
    BY <1>3, <2>1 DEF AuditInv
<1> QED
  BY <1>4, <1>5, OnlyRequests, Zenon

\* What the audit log has, it has of tokens that were issued for it, although it may
\* lack entries.
THEOREM AuditNamesIssued == Spec => []AuditWithinIssue
<1> DEFINE I == AuditInv /\ IssueInv /\ MemberInv /\ LoginInv /\ ReadyHolds
<1>1. Init => I
  <2>1. Init => AuditInv /\ ReadyHolds
    BY DEF Init, LoginInit, AuditInv, ReadyHolds
  <2> QED
    BY <2>1, IssueInit, MemberInit, LoginStarts DEF Init
<1>2. I /\ [Next]_vars => I'
  BY AuditStays, IssueStep, MemberStays, LoginAnyStep, ReadyStays DEF MemberInv
<1>3. I => AuditWithinIssue
  BY DEF AuditInv, Within, AuditWithinIssue
<1> QED
  BY <1>1, <1>2, <1>3, PTL DEF Spec

-----------------------------------------------------------------------------
(* Token commands run one at a time. *)

OneAtATime == \A a, b \in Admins : a = b

Distinct(table) ==
    \A t, u \in table : t.secret = u.secret \/ t.label = u.label => t = u

\* A table that may be saved when n secrets have been made: it has what was shown
\* and nothing that was taken away, once this command's own work is counted.
Fits(table, made, gone, n) ==
    /\ Distinct(table)
    /\ Secrets(table) \subseteq 1 .. n /\ made \cup gone \subseteq 1 .. n
    /\ Secrets(table) \cap (retired \cup gone) = {}
    /\ torn \/ (granted \cup made) \ (retired \cup gone) \subseteq Secrets(table)

OneInv ==
    /\ secrets \in Nat /\ retired \cup granted \subseteq 1 .. secrets
    /\ Distinct(tokens) /\ Secrets(tokens) \subseteq 1 .. secrets
    /\ DOMAIN apc = Admins /\ DOMAIN snap = Admins
    /\ \A a \in Admins : apc[a] # "idle" =>
          Fits(snap[a].table, snap[a].made, snap[a].gone, secrets)
    /\ RevokedStaysOut /\ IssuedSurvive

LEMMA OneInit == Init => OneInv
BY DEF Init, OneInv, Distinct, Secrets, RevokedStaysOut, IssuedSurvive

\* Between commands, the file itself fits.
LEMMA Between ==
    ASSUME OneAtATime, OneInv, NEW a \in Admins, apc[a] # "write"
    PROVE  Fits(tokens, {}, {}, secrets)
BY DEF OneAtATime, OneInv, Fits, RevokedStaysOut, IssuedSurvive

LEMMA OnePrepare ==
    ASSUME OneAtATime, OneInv, NEW a \in Admins, NEW table, NEW made, NEW gone,
           Prepare(a, table, made, gone),
           secrets' \in Nat, secrets <= secrets', Fits(table, made, gone, secrets'),
           UNCHANGED serverVars
    PROVE  OneInv'
<1>1. /\ apc[a] = "idle" /\ apc' = [apc EXCEPT ![a] = "truncate"]
      /\ snap' = [snap EXCEPT ![a] = [table |-> table, made |-> made, gone |-> gone]]
      /\ UNCHANGED <<tokens, granted, retired, torn, server, dead>>
  BY DEF Prepare, serverVars
<1>2. \A b \in Admins : b = a
  BY DEF OneAtATime
<1>3. DOMAIN apc' = Admins /\ DOMAIN snap' = Admins
  BY <1>1 DEF OneInv
<1>4. /\ snap'[a].table = table /\ snap'[a].made = made /\ snap'[a].gone = gone
  BY <1>1 DEF OneInv
<1>5. \A b \in Admins : Fits(snap[b].table, snap[b].made, snap[b].gone, secrets)'
  BY <1>1, <1>2, <1>4 DEF Fits, Distinct, Secrets
<1>6. /\ secrets' \in Nat /\ retired' \cup granted' \subseteq 1 .. secrets'
      /\ Distinct(tokens)' /\ Secrets(tokens)' \subseteq 1 .. secrets'
  BY <1>1 DEF OneInv, Distinct, Secrets
<1>7. RevokedStaysOut'
  BY <1>1 DEF OneInv, RevokedStaysOut, Secrets
<1>8. IssuedSurvive'
  <2>1. Fits(tokens, {}, {}, secrets)
    BY <1>1, Between
  <2>2. torn \/ granted \ retired \subseteq Secrets(tokens)
    BY <2>1 DEF Fits
  <2> QED
    BY <1>1, <2>2 DEF IssuedSurvive, Secrets
<1> QED
  BY <1>3, <1>5, <1>6, <1>7, <1>8 DEF OneInv

LEMMA OneTableStep ==
    ASSUME OneAtATime, OneInv, IssueInv, TableStep, UNCHANGED serverVars
    PROVE  OneInv'
<1>1. secrets \in Nat /\ \A t \in tokens : t.secret \in 1 .. secrets
  BY DEF OneInv, Secrets
<1>2. ASSUME NEW a \in Admins, NEW l \in Labels, NEW issue \in Issues, CreateToken(a, l, issue)
      PROVE  OneInv'
  <2>1. /\ Labelled(tokens, l) = {} /\ secrets' = secrets + 1
        /\ Prepare(a, tokens \cup {TokenRecord(l, issue)}, {secrets + 1}, {})
    BY <1>2 DEF CreateToken, NewSecret
  <2>2. Fits(tokens, {}, {}, secrets)
    BY <2>1, Between DEF Prepare
  <2>3. PICK new : new = TokenRecord(l, issue)
    OBVIOUS
  <2>4. new.secret = secrets + 1 /\ new.label = l
    BY <2>3 DEF TokenRecord
  <2>5. Distinct(tokens \cup {new})
    BY <1>1, <2>1, <2>2, <2>4 DEF Fits, Distinct, Labelled
  <2>6. Secrets(tokens \cup {new}) = Secrets(tokens) \cup {secrets + 1}
    BY <2>4 DEF Secrets
  <2>7. Fits(tokens \cup {new}, {secrets + 1}, {}, secrets')
    <3>1. secrets + 1 \notin retired
      BY <1>1 DEF OneInv
    <3>2. Secrets(tokens) \cup {secrets + 1} \subseteq 1 .. secrets'
      BY <1>1, <2>1 DEF OneInv
    <3> QED
      BY <2>2, <2>5, <2>6, <3>1, <3>2 DEF Fits
  <2> QED
    BY <1>1, <2>1, <2>3, <2>7, OnePrepare
<1>3. ASSUME NEW a \in Admins, NEW l \in Labels, NEW days, RotateToken(a, l, days)
      PROVE  OneInv'
  <2>1. PICK t \in tokens :
          /\ t.label = l /\ secrets' = secrets + 1
          /\ Prepare(a, (tokens \ {t}) \cup {Rotated(t, days)}, {secrets + 1}, {t.secret})
    BY <1>3 DEF RotateToken, Labelled, NewSecret
  <2>2. Fits(tokens, {}, {}, secrets)
    BY <2>1, Between DEF Prepare
  <2>3. PICK new : new = Rotated(t, days)
    OBVIOUS
  <2>4. new.secret = secrets + 1 /\ new.label = t.label
    BY <2>3, RotatedToken DEF IssueInv
  <2>5. Distinct((tokens \ {t}) \cup {new})
    BY <1>1, <2>2, <2>4 DEF Fits, Distinct
  <2>6. Secrets((tokens \ {t}) \cup {new}) = (Secrets(tokens) \ {t.secret}) \cup {secrets + 1}
    BY <2>2, <2>4 DEF Secrets, Fits, Distinct
  <2>7. Fits((tokens \ {t}) \cup {new}, {secrets + 1}, {t.secret}, secrets')
    <3>1. secrets + 1 \notin retired /\ secrets + 1 # t.secret
      BY <1>1 DEF OneInv
    <3>2. Secrets(tokens) \cup {secrets + 1} \subseteq 1 .. secrets' /\ t.secret \in 1 .. secrets'
      BY <1>1, <2>1 DEF OneInv
    <3> QED
      BY <2>2, <2>5, <2>6, <3>1, <3>2 DEF Fits
  <2> QED
    BY <1>1, <2>1, <2>3, <2>7, OnePrepare
<1>4. ASSUME NEW a \in Admins, NEW l \in Labels, RevokeToken(a, l) PROVE OneInv'
  <2> DEFINE L == Labelled(tokens, l)
  <2>1. Prepare(a, tokens \ L, {}, Secrets(L)) /\ secrets' = secrets
    BY <1>4 DEF RevokeToken
  <2>2. Fits(tokens, {}, {}, secrets)
    BY <2>1, Between DEF Prepare
  <2>3. L \subseteq tokens
    BY DEF Labelled
  <2>4. Secrets(tokens \ L) = Secrets(tokens) \ Secrets(L)
    BY <2>2, <2>3 DEF Secrets, Fits, Distinct
  <2>5. Secrets(L) \subseteq Secrets(tokens) /\ Distinct(tokens \ L)
    BY <2>2, <2>3 DEF Secrets, Fits, Distinct
  <2>6. Fits(tokens \ L, {}, Secrets(L), secrets')
    BY <2>1, <2>2, <2>4, <2>5 DEF Fits
  <2> QED
    BY <1>1, <2>1, <2>6, OnePrepare
<1>5. ASSUME NEW a \in Admins, TruncateTable(a) \/ WriteTable(a) \/ AdminCrash(a)
      PROVE  OneInv'
  <2>1. \A b \in Admins : b = a
    BY DEF OneAtATime
  <2>2. DOMAIN apc' = Admins /\ DOMAIN snap' = Admins /\ secrets' = secrets
    BY <1>5 DEF TruncateTable, WriteTable, AdminCrash, OneInv
  <2>3. server' = server /\ dead' = dead
    BY DEF serverVars
  <2>4. CASE TruncateTable(a)
    <3>1. /\ apc[a] # "idle" /\ apc'[a] = "write" /\ tokens' = {}
          /\ UNCHANGED <<snap, granted, retired, torn>>
      BY <2>4 DEF TruncateTable, OneInv
    <3>2. \A b \in Admins : Fits(snap[b].table, snap[b].made, snap[b].gone, secrets)'
      BY <2>1, <2>2, <3>1 DEF OneInv, Fits, Distinct, Secrets
    <3>3. Distinct(tokens)' /\ Secrets(tokens)' = {}
      BY <3>1 DEF Distinct, Secrets
    <3>4. RevokedStaysOut' /\ IssuedSurvive'
      BY <2>3, <3>1, <3>3 DEF OneInv, RevokedStaysOut, IssuedSurvive, Secrets
    <3> QED
      BY <2>2, <3>1, <3>2, <3>3, <3>4 DEF OneInv
  <2>5. CASE WriteTable(a)
    <3>1. /\ apc[a] # "idle" /\ apc'[a] = "idle" /\ tokens' = snap[a].table
          /\ granted' = granted \cup snap[a].made /\ retired' = retired \cup snap[a].gone
          /\ torn' = torn
      BY <2>5 DEF WriteTable, OneInv
    <3>2. Fits(snap[a].table, snap[a].made, snap[a].gone, secrets)
      BY <3>1 DEF OneInv
    <3>3. Distinct(tokens)' /\ Secrets(tokens)' = Secrets(snap[a].table)
      BY <3>1, <3>2 DEF Fits, Distinct, Secrets
    <3>4. /\ Secrets(tokens)' \cap retired' = {}
          /\ torn' \/ granted' \ retired' \subseteq Secrets(tokens)'
          /\ retired' \cup granted' \subseteq 1 .. secrets /\ Secrets(tokens)' \subseteq 1 .. secrets
      BY <3>1, <3>2, <3>3 DEF Fits, OneInv
    <3>5. RevokedStaysOut' /\ IssuedSurvive'
      BY <2>3, <3>4 DEF OneInv, RevokedStaysOut, IssuedSurvive, Secrets
    <3> QED
      BY <2>1, <2>2, <3>1, <3>3, <3>4, <3>5 DEF OneInv
  <2>6. CASE AdminCrash(a)
    <3>1. /\ apc'[a] = "idle" /\ UNCHANGED <<tokens, granted, retired>>
          /\ torn' = (torn \/ apc[a] = "write")
      BY <2>6 DEF AdminCrash, OneInv
    <3>2. torn' \/ granted \ retired \subseteq Secrets(tokens)
      BY <2>1, <3>1 DEF OneInv, IssuedSurvive
    <3>3. RevokedStaysOut' /\ IssuedSurvive'
      BY <2>3, <3>1, <3>2 DEF OneInv, RevokedStaysOut, IssuedSurvive, Secrets
    <3> QED
      BY <2>1, <2>2, <3>1, <3>3 DEF OneInv, Distinct, Secrets
  <2> QED
    BY <1>5, <2>4, <2>5, <2>6
<1> QED
  BY <1>2, <1>3, <1>4, <1>5 DEF TableStep, TableNext

\* A server that starts knows no secret that was retired before.
LEMMA OneServerStep ==
    ASSUME OneInv, ServerStep, UNCHANGED tableVars
    PROVE  OneInv'
<1>1. /\ UNCHANGED <<tokens, secrets, apc, snap, granted, retired, torn>>
  BY DEF tableVars
<1>2. ASSUME server' # None PROVE Secrets(server'.table) \cap dead' = {}
  <2>1. PICK legacy \in BOOLEAN, jwt \in JwtModes : Start(legacy, jwt)
    BY <1>2 DEF ServerStep, Stop
  <2>2. server'.table \subseteq tokens \cup {LegacyToken} /\ dead' = retired
    BY <2>1 DEF Start
  <2>3. LegacyToken.secret = 0
    BY DEF LegacyToken
  <2> QED
    BY <2>2, <2>3 DEF OneInv, RevokedStaysOut, Secrets
<1>3. RevokedStaysOut' /\ IssuedSurvive'
  BY <1>1, <1>2 DEF OneInv, RevokedStaysOut, IssuedSurvive, Secrets
<1> QED
  BY <1>1, <1>3 DEF OneInv, Fits, Distinct, Secrets

LEMMA OneStep == OneAtATime /\ OneInv /\ IssueInv /\ BoundTyped /\ [Next]_vars => OneInv'
<1> SUFFICES ASSUME OneAtATime, OneInv, IssueInv, BoundTyped, [Next]_vars PROVE OneInv'
  OBVIOUS
<1>1. CASE TableStep /\ UNCHANGED serverVars
  BY <1>1, OneTableStep
<1>2. CASE ServerStep /\ UNCHANGED tableVars
  BY <1>2, OneServerStep
<1>3. CASE UNCHANGED <<tableVars, server, dead>>
  BY <1>3 DEF OneInv, Fits, Distinct, Secrets, RevokedStaysOut, IssuedSurvive, tableVars
<1>4. CASE UNCHANGED tableVars /\ UNCHANGED serverVars
  BY <1>3, <1>4 DEF serverVars
<1>5. Request => server' = server /\ dead' = dead
  BY DEF Request
<1> QED
  BY <1>1, <1>2, <1>3, <1>4, <1>5, StepKinds, Zenon

LEMMA OneAlways ==
    ASSUME OneAtATime
    PROVE  Spec => []OneInv
<1>1. Init => OneInv /\ IssueInv /\ MemberInv
  BY OneInit, IssueInit, MemberInit
<1>2. OneInv /\ IssueInv /\ MemberInv /\ [Next]_vars => (OneInv /\ IssueInv /\ MemberInv)'
  BY OneStep, IssueStep, MemberStays DEF MemberInv
<1> QED
  BY <1>1, <1>2, PTL DEF Spec

\* With commands run one at a time, a secret reported as revoked or rotated is in no
\* table again, and no server started since knows it.
THEOREM RevokedForGood ==
    ASSUME OneAtATime
    PROVE  Spec => []RevokedStaysOut
<1>1. OneInv => RevokedStaysOut
  BY DEF OneInv
<1> QED
  BY <1>1, OneAlways, PTL

\* With commands run one at a time, a command takes away only the token it names.
THEOREM CommandsExact ==
    ASSUME OneAtATime
    PROVE  Spec => []IssuedSurvive
<1>1. OneInv => IssuedSurvive
  BY DEF OneInv
<1> QED
  BY <1>1, OneAlways, PTL
=============================================================================

------------------------------- MODULE Login --------------------------------
(***************************************************************************)
(* The account login of one machine (crates/sync/src/identity.rs): the     *)
(* file identity.json, which every brick process of the machine reads and  *)
(* rewrites without a lock, and the account service, which spends a        *)
(* refresh token when it renews it.  A sign-in starts a family of refresh  *)
(* tokens, of which one at a time is live.                                 *)
(*                                                                         *)
(* fs::write empties the file before it fills it, and load_from takes an   *)
(* empty file for "not logged in", so None stands for both.  Expiry is     *)
(* counted in ticks of `now`.                                              *)
(***************************************************************************)
EXTENDS Naturals, Sequences, FiniteSets

CONSTANTS
    Clients,    \* brick processes of the machine
    Users,
    Ttl,        \* life of an access token
    Skew,       \* the 30 seconds is_expired_at counts ahead
    MaxMints,   \* bound: refresh tokens
    MaxTime,    \* bound: ticks
    MaxFaults,  \* bound: crashes and lost answers
    None

ASSUME LoginAssumption ==
    /\ Ttl \in Nat /\ Skew \in Nat
    /\ MaxMints \in Nat /\ MaxTime \in Nat /\ MaxFaults \in Nat

VARIABLES
    now,
    identity,   \* identity.json, or None
    minted,     \* the account service: owner and family of each refresh token
    live,       \* the refresh tokens it still takes
    cpc,        \* where each process is
    hold,       \* the identity it has in memory
    faults,
    lost        \* families whose live token no process and no file holds (history)

loginVars == <<identity, minted, live, cpc, hold, lost>>

Identity == [user : Users, refresh : 1 .. MaxMints, expires : Nat]

LoginInit ==
    /\ identity = None
    /\ minted = <<>> /\ live = {}
    /\ cpc = [c \in Clients |-> "idle"]
    /\ hold = [c \in Clients |-> None]
    /\ lost = {}

\* is_expired_at.
IsExpired(id) == now + Skew >= id.expires

Family(id) == minted[id.refresh].family

\* The identity into_identity makes of a token response for user u.
Minted(u) == [user |-> u, refresh |-> Len(minted) + 1, expires |-> now + Ttl]

\* Mutant: a renewal keeps the refresh token it was made with.
MintKeeping(c, u, family) ==
    /\ Len(minted) < MaxMints
    /\ minted' = Append(minted, [user |-> u, family |-> family])
    /\ hold' = [hold EXCEPT ![c] =
          [Minted(u) EXCEPT !.refresh = IF hold[c] = None THEN @ ELSE hold[c].refresh]]

\* The token response is in memory.
Mint(c, u, family) ==
    /\ Len(minted) < MaxMints
    /\ minted' = Append(minted, [user |-> u, family |-> family])
    /\ hold' = [hold EXCEPT ![c] = Minted(u)]

At(c, from, to) ==
    /\ cpc[c] = from
    /\ cpc' = [cpc EXCEPT ![c] = to]

\* verify_email_otp (either type of code) and save_magic_link_callback: new
\* tokens for u, to be saved.
SignIn(c, u) ==
    /\ At(c, "idle", "truncate")
    /\ Mint(c, u, Len(minted) + 1)
    /\ live' = live \cup {Len(minted) + 1}
    /\ UNCHANGED <<identity, lost>>

\* save_to, first half: the file is emptied.
Truncate(c) ==
    /\ At(c, "truncate", "write")
    /\ identity' = None
    /\ UNCHANGED <<minted, live, hold, lost>>

\* save_to, second half.
WriteOut(c) ==
    /\ At(c, "write", "ready")
    /\ identity' = hold[c]
    /\ UNCHANGED <<minted, live, hold, lost>>

\* clear.
Logout(c) ==
    /\ cpc[c] = "idle" /\ identity # None
    /\ identity' = None
    /\ UNCHANGED <<minted, live, cpc, hold, lost>>

\* refresh_if_needed: the stored identity is used unless it has expired.
RefreshIfNeeded(c) ==
    /\ identity # None
    /\ IF IsExpired(identity)
       THEN At(c, "idle", "reload") /\ hold' = hold
       ELSE At(c, "idle", "ready") /\ hold' = [hold EXCEPT ![c] = identity]
    /\ UNCHANGED <<identity, minted, live, lost>>

\* refresh reads the file again, which may have been emptied since.
Reload(c) ==
    /\ At(c, "reload", IF identity = None THEN "idle" ELSE "post")
    /\ hold' = [hold EXCEPT ![c] = identity]
    /\ UNCHANGED <<identity, minted, live, lost>>

\* The service renews a live token, whose answer may be lost, and refuses a
\* spent one.
PostRefresh(c) ==
    LET id == hold[c]
        spend == live \ {id.refresh}
    IN
    \/ /\ At(c, "post", "truncate")
       /\ id.refresh \in live
       /\ Mint(c, id.user, Family(id))
       /\ live' = spend \cup {Len(minted) + 1}
       /\ UNCHANGED <<identity, lost, faults>>
    \/ /\ At(c, "post", "idle")
       /\ id.refresh \in live /\ faults < MaxFaults
       /\ live' = spend /\ lost' = lost \cup {Family(id)}
       /\ faults' = faults + 1
       /\ hold' = [hold EXCEPT ![c] = None]
       /\ UNCHANGED <<identity, minted>>
    \/ /\ At(c, "post", "idle")
       /\ id.refresh \notin live
       /\ hold' = [hold EXCEPT ![c] = None]
       /\ UNCHANGED <<identity, minted, live, lost, faults>>

\* The command ends.
Release(c) ==
    /\ At(c, "ready", "idle")
    /\ hold' = [hold EXCEPT ![c] = None]
    /\ UNCHANGED <<identity, minted, live, lost>>

\* The process dies with an identity it has not saved.
ClientCrash(c) ==
    /\ cpc[c] \in {"truncate", "write"} /\ faults < MaxFaults
    /\ cpc' = [cpc EXCEPT ![c] = "idle"]
    /\ hold' = [hold EXCEPT ![c] = None]
    /\ lost' = lost \cup {Family(hold[c])}
    /\ faults' = faults + 1
    /\ UNCHANGED <<identity, minted, live>>

LoginNext ==
    \E c \in Clients :
        \/ PostRefresh(c) \/ ClientCrash(c)
        \/ /\ UNCHANGED faults
           /\ \/ \E u \in Users : SignIn(c, u)
              \/ Truncate(c) \/ WriteOut(c) \/ Logout(c)
              \/ RefreshIfNeeded(c) \/ Reload(c) \/ Release(c)

(***************************************************************************)
(* The refresh token in identity.json can be used, whoever else refreshed  *)
(* meanwhile, unless a process is about to save its successor: a process   *)
(* that finds its token spent never writes it back, and none overwrites a  *)
(* token with an older one of its family.  Only a crash or a lost answer   *)
(* between the service's renewal and the save locks the account out.       *)
(***************************************************************************)
StoredTokenUsable ==
    identity # None =>
        \/ identity.refresh \in live
        \/ Family(identity) \in lost
        \/ \E c \in Clients :
              /\ cpc[c] \in {"truncate", "write"}
              /\ hold[c].refresh \in live
              /\ Family(hold[c]) = Family(identity)

=============================================================================

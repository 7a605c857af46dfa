---------------------------- MODULE AccountRegistry ----------------------------
(***************************************************************************)
(* The gateway's account registry: a dictionary in memory, and a JSON file *)
(* that every registration rewrites as a whole (a temporary file, renamed  *)
(* over the store).  POST /v1/accounts runs on the event loop, one request *)
(* at a time; the disk may refuse any step of the flush, and the process   *)
(* may die between any two of them and be restarted by its container.      *)
(*                                                                         *)
(* A record of the store is the KEM key that the account was registered    *)
(* with.  The signing key is left out: the route accepts an account id only*)
(* when it is derived from that key, so equal ids have equal signing keys. *)
(***************************************************************************)
EXTENDS Naturals

CONSTANTS
    Accounts,
    Kems,           \* KEM public keys an account may be registered with
    MaxCrashes,     \* bound: deaths of the process
    None,           \* no record
    Torn,           \* a file that was truncated and not written completely
    NoFile

ASSUME CrashesAssumption == MaxCrashes \in Nat
ASSUME NoneAssumption == None \notin Kems
ASSUME FileAssumption ==
    /\ Torn # NoFile
    /\ \A f \in [Accounts -> Kems \cup {None}] : f # Torn /\ f # NoFile

VARIABLES
    up,         \* the process runs and has loaded its registry
    registryCache,  \* AccountRegistry._cache
    disk,       \* accounts.json
    tmp,        \* accounts.json.tmp
    req,        \* the registration in progress, and the step of _flush it is at
    created,    \* accounts answered 201
    confirmed,  \* accounts answered 200
    crashes

registryVars == <<up, registryCache, disk, tmp, req, created, confirmed, crashes>>

Records == [Accounts -> Kems \cup {None}]
Empty == [a \in Accounts |-> None]
Idle == [pc |-> "idle", acct |-> None]

-----------------------------------------------------------------------------
\* Mutant: _load does not ask whether the file exists.
LoadUnchecked(file) == file

Load(file) == IF file = NoFile THEN Empty ELSE file

RegistryInit ==
    /\ up = TRUE
    /\ disk = NoFile
    /\ tmp = NoFile
    /\ registryCache = Load(disk)
    /\ req = Idle
    /\ created = {}
    /\ confirmed = {}
    /\ crashes = 0

\* register() for an account it knows: nothing is written, the answer is 200.
Reregister(a) ==
    /\ up /\ req = Idle
    /\ registryCache[a] # None
    /\ confirmed' = confirmed \cup {a}
    /\ UNCHANGED <<up, registryCache, disk, tmp, req, created, crashes>>

\* register() for a new account: into the cache first, then _flush.
Register(a, k) ==
    /\ up /\ req = Idle
    /\ registryCache[a] = None
    /\ registryCache' = [registryCache EXCEPT ![a] = k]
    /\ req' = [pc |-> "opening", acct |-> a]
    /\ UNCHANGED <<up, disk, tmp, created, confirmed, crashes>>

\* Mutant: the store itself is rewritten in place.
TruncateStore ==
    /\ req.pc = "opening"
    /\ disk' = Torn
    /\ req' = [req EXCEPT !.pc = "writing"]
    /\ UNCHANGED <<up, registryCache, tmp, created, confirmed, crashes>>

\* write_text opens the temporary file, which truncates it ...
TruncateTmp ==
    /\ req.pc = "opening"
    /\ tmp' = Torn
    /\ req' = [req EXCEPT !.pc = "writing"]
    /\ UNCHANGED <<up, registryCache, disk, created, confirmed, crashes>>

\* Mutant: 201 is answered as soon as the temporary file is written.
WriteAnswers ==
    /\ req.pc = "writing"
    /\ tmp' = registryCache
    /\ req' = [req EXCEPT !.pc = "renaming"]
    /\ created' = created \cup {req.acct}
    /\ UNCHANGED <<up, registryCache, disk, confirmed, crashes>>

\* ... and then writes the whole cache to it.
WriteTmp ==
    /\ req.pc = "writing"
    /\ tmp' = registryCache
    /\ req' = [req EXCEPT !.pc = "renaming"]
    /\ UNCHANGED <<up, registryCache, disk, created, confirmed, crashes>>

\* tmp.replace(path), the end of the transaction: 201.
Replace ==
    /\ req.pc = "renaming"
    /\ disk' = tmp
    /\ tmp' = NoFile
    /\ req' = Idle
    /\ created' = created \cup {req.acct}
    /\ UNCHANGED <<up, registryCache, confirmed, crashes>>

\* The directory, the temporary file or the rename is refused by the system:
\* the OSError is not caught, the answer is 500, the cache keeps the account.
FlushFails ==
    /\ req # Idle
    /\ req' = Idle
    /\ UNCHANGED <<up, registryCache, disk, tmp, created, confirmed, crashes>>

Crash ==
    /\ up
    /\ crashes < MaxCrashes
    /\ up' = FALSE
    /\ registryCache' = Empty
    /\ req' = Idle
    /\ crashes' = crashes + 1
    /\ UNCHANGED <<disk, tmp, created, confirmed>>

\* Mutant: a new process starts from an empty cache.
RestartEmpty ==
    /\ ~up
    /\ up' = TRUE
    /\ registryCache' = Empty
    /\ UNCHANGED <<disk, tmp, req, created, confirmed, crashes>>

\* A new process loads the store; json.loads raises on a torn one.
Restart ==
    /\ ~up
    /\ disk # Torn
    /\ up' = TRUE
    /\ registryCache' = Load(disk)
    /\ UNCHANGED <<disk, tmp, req, created, confirmed, crashes>>

RegistryNext ==
    \/ \E a \in Accounts : Reregister(a) \/ \E k \in Kems : Register(a, k)
    \/ TruncateTmp \/ WriteTmp \/ Replace \/ FlushFails
    \/ Crash \/ Restart

RegistrySpec == RegistryInit /\ [][RegistryNext]_registryVars

-----------------------------------------------------------------------------
(***************************************************************************)
(* Every variable of the registry and its files has its type.              *)
(***************************************************************************)
RegistryTypeOK ==
    /\ up \in BOOLEAN
    /\ registryCache \in Records
    /\ disk \in Records \cup {Torn, NoFile}
    /\ tmp \in Records \cup {Torn, NoFile}
    /\ req \in [pc : {"idle", "opening", "writing", "renaming"}, acct : Accounts \cup {None}]
    /\ created \subseteq Accounts
    /\ confirmed \subseteq Accounts
    /\ crashes \in 0..MaxCrashes

(***************************************************************************)
(* accounts.py:36-39: "Writes are atomic (temp + rename) so a crash or a   *)
(* concurrent reader can never observe a truncated store": wherever a flush*)
(* is refused or the process dies, the store can be loaded again.          *)
(***************************************************************************)
NeverTorn == disk # Torn

(***************************************************************************)
(* POST /v1/accounts: an account whose registration was answered 201 is in *)
(* the store, and so in the registry of every later process.               *)
(***************************************************************************)
CreatedIsDurable == \A a \in created : Load(disk)[a] # None

(***************************************************************************)
(* register() refuses a rebind: a record that reached the store is never   *)
(* changed and never lost, although every flush rewrites the whole file    *)
(* from the cache of a process that may have been restarted.               *)
(***************************************************************************)
RecordsPersist ==
    [][\A a \in Accounts : Load(disk)[a] # None => Load(disk')[a] = Load(disk)[a]]_registryVars

(***************************************************************************)
(* gateway-api.md:30 calls registration idempotent, "201/200": an account  *)
(* that was answered 200 is as registered as one that was answered 201.    *)
(* The code does not keep this: see "Disagreements" in the README.         *)
(***************************************************************************)
ConfirmedIsDurable == \A a \in confirmed : Load(disk)[a] # None
=============================================================================

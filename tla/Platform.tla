------------------------------ MODULE Platform ------------------------------
(***************************************************************************)
(* The control plane's identities: the user store and its indexes, the       *)
(* admin, SCIM and SSO handlers that change it, password and API-key login   *)
(* behind the login guard, and the snapshot that carries it over a restart   *)
(* (pkg/platform, pkg/web/auth_api.go, scim_api.go, sso_api.go, setupPlatform *)
(* in pkg/agent/controller.go).                                              *)
(*                                                                         *)
(* One tenant, the one SCIM and SSO provision into.  A *User is its number;   *)
(* the stores and the requests in flight share the object, user[u].  What a    *)
(* session token is worth later is in Sessions.                              *)
(***************************************************************************)
EXTENDS Integers, Sequences, FiniteSets, Functions

CONSTANTS
    Handlers,       \* goroutines serving requests
    Emails,         \* addresses of the users, the bootstrap administrator's too
    Admin,          \* platform.bootstrap_email
    Spellings,      \* ways to write one address or tenant slug: its case, blanks around it
    MaxFailures, Window, Lockout,   \* NewLoginGuard's arguments
    MaxUsers, MaxKeys,      \* bounds on users and API keys created
    MaxTime,        \* bound on the clock
    MaxRequests,    \* bound on requests
    MaxRestarts     \* bound on starts of the process

ASSUME PlatformAssumption ==
    /\ Admin \in Emails
    /\ MaxFailures \in Nat \ {0}
    /\ {Window, Lockout, MaxUsers, MaxKeys, MaxTime, MaxRequests, MaxRestarts} \subseteq Nat

VARIABLES
    now,
    running,
    user,           \* the User objects: [email, status, pw, keys]
    byID, byEmail, byAPIKey,    \* MemUserStore
    records,        \* LoginGuard.records
    request,        \* what each handler is at
    file,           \* the snapshot on disk
    raced,          \* users whose map of API keys was accessed during a write to it
    created, keyed, requests, starts,   \* counters
    promised        \* API keys handed out by handleCreateAPIKey and not lost since

storeVars == <<user, byID, byEmail, byAPIKey, created, raced>>
counters  == <<keyed, requests, starts>>
vars == <<now, running, storeVars, records, request, file, counters, promised>>

Idle   == [op |-> "idle"]
NoFile == [op |-> "none"]
Zero   == -1       \* time.Time{}
Statuses == {"active", "disabled"}
Without(f, S) == Restrict(f, DOMAIN f \ S)
Put(f, k, v)  == [x \in DOMAIN f \cup {k} |-> IF x = k THEN v ELSE f[x]]
Owned(u)      == {k \in DOMAIN byAPIKey : byAPIKey[k] = u}

Init ==
    /\ now = 0 /\ running = FALSE
    /\ user = <<>> /\ byID = {} /\ byEmail = <<>> /\ byAPIKey = <<>>
    /\ records = <<>> /\ request = [h \in Handlers |-> Idle] /\ file = NoFile
    /\ created = 0 /\ keyed = 0 /\ requests = 0 /\ starts = 0
    /\ promised = {} /\ raced = {}

Clock ==
    /\ now < MaxTime
    /\ now' = now + 1
    /\ UNCHANGED <<running, storeVars, records, request, file, counters, promised>>

-----------------------------------------------------------------------------
(* MemUserStore.  Create refuses an address already indexed. *)

Create(e, status, pw) ==
    /\ created < MaxUsers
    /\ created' = created + 1
    /\ user'    = Put(user, created + 1, [email |-> e, status |-> status, pw |-> pw, keys |-> {}])
    /\ byID'    = byID \cup {created + 1}
    /\ byEmail' = Put(byEmail, e, created + 1)
    /\ UNCHANGED <<byAPIKey, raced>>

\* apiKeyHashes is a Go map that handlers write without a lock.  To range over it while
\* one is writing is undefined: keys may be missed, the new ones seen or not, or the
\* runtime ends the process, which Crash may do at any time.
Writers(u) == {h \in Handlers : request[h].op = "generate" /\ request[h].u = u}
Ranged(u)  == IF Writers(u) = {} THEN {user[u].keys}
              ELSE SUBSET (user[u].keys \cup {request[h].key : h \in Writers(u)})
Racing(S)  == raced' = raced \cup {u \in S : Writers(u) # {}}

\* (mutant) reindexing forgets the API keys
UpdateDropsKeys(u, object) ==
    /\ user' = Put(user, u, object)
    /\ byEmail'  = IF u \in byID THEN Put(byEmail, object.email, u) ELSE byEmail
    /\ byAPIKey' = IF u \in byID THEN Without(byAPIKey, Owned(u)) ELSE byAPIKey
    /\ UNCHANGED <<byID, created, raced>>

\* The handler has changed the shared object; Update reindexes it, if it still exists
Update(u, object) ==
    /\ user' = Put(user, u, object)
    /\ IF u \in byID
       THEN /\ byEmail' = Put(byEmail, object.email, u)
            /\ \E keys \in Ranged(u) :
                  byAPIKey' = [k \in (DOMAIN byAPIKey \ Owned(u)) \cup keys |->
                                 IF k \in keys THEN u ELSE byAPIKey[k]]
            /\ Racing({u})
       ELSE UNCHANGED <<byEmail, byAPIKey, raced>>
    /\ UNCHANGED <<byID, created>>

\* (mutant) the deleted user's API keys stay in the index
DeleteKeepsKeys(u) ==
    /\ byID'     = byID \ {u}
    /\ byEmail'  = Without(byEmail, {user[u].email})
    /\ UNCHANGED <<user, byAPIKey, created, raced>>

Delete(u) ==
    /\ byID'     = byID \ {u}
    /\ byEmail'  = Without(byEmail, {user[u].email})
    /\ byAPIKey' = Without(byAPIKey, Owned(u))
    /\ UNCHANGED <<user, created, raced>>

-----------------------------------------------------------------------------
(* Requests *)

Begin(h) ==
    /\ running /\ request[h] = Idle /\ requests < MaxRequests
    /\ requests' = requests + 1
    /\ UNCHANGED <<now, running, file, keyed, starts>>

Finish(h, op) ==
    /\ running /\ request[h].op = op
    /\ request' = [request EXCEPT ![h] = Idle]
    /\ UNCHANGED <<now, running, file, counters>>

CreateUser(h, e) ==
    /\ Begin(h)
    /\ e \notin DOMAIN byEmail
    /\ Create(e, "active", TRUE)
    /\ UNCHANGED <<records, request, promised>>

\* Get and GenerateAPIKey, which begins to write to the shared map, without a lock ...
ApiKeyGenerate(h, u) ==
    /\ running /\ request[h] = Idle /\ requests < MaxRequests /\ keyed < MaxKeys
    /\ u \in byID
    /\ keyed' = keyed + 1
    /\ requests' = requests + 1
    /\ request' = [g \in Handlers |->
          IF g = h THEN [op |-> "generate", u |-> u, key |-> keyed + 1, contended |-> Writers(u) # {}]
          ELSE IF g \in Writers(u) THEN [request[g] EXCEPT !.contended = TRUE]
          ELSE request[g]]
    /\ Racing({u})
    /\ UNCHANGED <<now, running, file, starts, user, byID, byEmail, byAPIKey, created, records, promised>>

\* ... and has written: two writes at once may lose either key, or one that was there
ApiKeyWritten(h) ==
    /\ running /\ request[h].op = "generate"
    /\ LET r    == request[h]
           held == user[r.u].keys \cup {r.key}
       IN  /\ \E lost \in IF r.contended THEN SUBSET held ELSE {{}} :
                 user' = [user EXCEPT ![r.u].keys = held \ lost]
           /\ request' = [request EXCEPT ![h] = [op |-> "apikey", u |-> r.u, key |-> r.key]]
    /\ UNCHANGED <<now, running, byID, byEmail, byAPIKey, created, raced, records, file, counters, promised>>

\* Update, and the raw key is shown to the caller when it succeeds
ApiKeyUpdate(h) ==
    /\ Finish(h, "apikey")
    /\ LET r == request[h]
       IN  /\ Update(r.u, user[r.u])
           /\ promised' = IF r.u \in byID THEN promised \cup {[key |-> r.key, owner |-> r.u]} ELSE promised
    /\ UNCHANGED records

SCIMCreateUser(h, e, status) ==
    /\ Begin(h)
    /\ e \notin DOMAIN byEmail       \* otherwise the existing user is returned
    /\ Create(e, status, FALSE)
    /\ UNCHANGED <<records, request, promised>>

\* Get, and the status it will write: the one asked for, or the one it reads now
SCIMPatchRead(h, u, asked) ==
    /\ Begin(h)
    /\ u \in byID
    /\ request' = [request EXCEPT ![h] =
          [op |-> "patch", u |-> u, status |-> IF asked = "same" THEN user[u].status ELSE asked]]
    /\ UNCHANGED <<storeVars, records, promised>>

SCIMPatchWrite(h) ==
    /\ Finish(h, "patch")
    /\ Update(request[h].u, [user[request[h].u] EXCEPT !.status = request[h].status])
    /\ UNCHANGED <<records, promised>>

SCIMDeleteUser(h, u) ==
    /\ Begin(h)
    /\ u \in byID
    /\ Delete(u)
    /\ UNCHANGED <<records, request, promised>>

\* ssoIssue looks the address up ...
SSOLookup(h, e) ==
    /\ Begin(h)
    /\ request' = [request EXCEPT ![h] =
          [op |-> "sso", email |-> e, found |-> IF e \in DOMAIN byEmail THEN byEmail[e] ELSE 0]]
    /\ UNCHANGED <<storeVars, records, promised>>

\* ... then provisions the user (Create fails if another request did so meanwhile), or
\* activates the one found, whether or not it is still there, and issues a session
SSOIssue(h) ==
    /\ Finish(h, "sso")
    /\ LET r == request[h]
       IN  IF r.found # 0 THEN Update(r.found, [user[r.found] EXCEPT !.status = "active"])
           ELSE IF r.email \in DOMAIN byEmail THEN UNCHANGED storeVars
           ELSE Create(r.email, "active", FALSE)
    /\ UNCHANGED <<records, promised>>

-----------------------------------------------------------------------------
(* handleLogin: the guard is asked, the credentials are checked, the guard is told. *)

Credentials == [by : {"password"}, email : Emails, spelled : Spellings, right : BOOLEAN]
                 \cup [by : {"key"}, key : 1..MaxKeys]

\* The guard goes by the tenant and the address as they were sent; the stores look up
\* the normalised ones (normalizeSlug, emailKey)
guardKey(c) == IF c.by = "key" THEN <<"apikey">> ELSE <<c.email, c.spelled>>

LockedOut(k) ==
    /\ k \in DOMAIN records
    /\ records[k].lockedUntil # Zero
    /\ now < records[k].lockedUntil

\* (mutant) the guard never says no
AllowedAlways(k) == UNCHANGED records

\* Allowed drops the record of a lockout that has elapsed
Allowed(k) ==
    /\ ~LockedOut(k)
    /\ records' = IF k \in DOMAIN records /\ records[k].lockedUntil # Zero THEN Without(records, {k}) ELSE records

RecordFailure(k) ==
    LET fresh == k \notin DOMAIN records \/ now - records[k].windowStart > Window
        rec   == IF fresh THEN [failures |-> 0, windowStart |-> now, lockedUntil |-> Zero] ELSE records[k]
        n     == rec.failures + 1
    IN  records' = Put(records, k, [rec EXCEPT !.failures = n,
                      !.lockedUntil = IF n >= MaxFailures THEN now + Lockout ELSE @])

RecordSuccess(k) == records' = Without(records, {k})

Authenticates(c) ==
    IF c.by = "key"
    THEN c.key \in DOMAIN byAPIKey /\ user[byAPIKey[c.key]].status = "active"
    ELSE /\ c.email \in DOMAIN byEmail
         /\ user[byEmail[c.email]].status = "active"
         /\ user[byEmail[c.email]].pw /\ c.right

LoginAdmit(h, c) ==
    /\ Begin(h)
    /\ Allowed(guardKey(c))
    /\ request' = [request EXCEPT ![h] = [op |-> "login", cred |-> c]]
    /\ UNCHANGED <<storeVars, promised>>

LoginCheck(h) ==
    /\ Finish(h, "login")
    /\ LET c == request[h].cred
       IN  IF Authenticates(c) THEN RecordSuccess(guardKey(c)) ELSE RecordFailure(guardKey(c))
    /\ UNCHANGED <<storeVars, promised>>

-----------------------------------------------------------------------------
(* Stop, crash, and setupPlatform at the next start. *)

Snapshots == {[op |-> "snapshot", users |-> [u \in byID |-> [user[u] EXCEPT !.keys = keys[u]]]] :
                keys \in {f \in [byID -> SUBSET (1..MaxKeys)] : \A u \in byID : f[u] \in Ranged(u)}}
InFile(f, p) == f # NoFile /\ p.owner \in DOMAIN f.users /\ p.key \in f.users[p.owner].keys

\* The process is gone, with what it had in memory
Down ==
    /\ running' = FALSE
    /\ user' = <<>> /\ byID' = {} /\ byEmail' = <<>> /\ byAPIKey' = <<>> /\ records' = <<>> /\ raced' = {}
    /\ request' = [h \in Handlers |-> Idle]
    /\ promised' = {p \in promised : InFile(file', p)}
    /\ UNCHANGED <<now, created, counters>>

\* The web server gives requests five seconds to finish, so some may be under
\* way when the snapshot is taken; saveSnapshot is best effort
Stop(saved) ==
    /\ running
    /\ IF saved THEN file' \in Snapshots ELSE UNCHANGED file
    /\ Down

Crash ==
    /\ running
    /\ UNCHANGED file
    /\ Down

Boot ==
    /\ ~running /\ starts < MaxRestarts
    /\ running' = TRUE
    /\ starts' = starts + 1
    /\ UNCHANGED <<now, records, request, keyed, requests>>

LoadSnapshot ==
    /\ Boot
    /\ file # NoFile
    /\ user' = file.users /\ byID' = DOMAIN file.users
    /\ byEmail'  = [e \in {file.users[u].email : u \in byID'} |-> CHOOSE u \in byID' : file.users[u].email = e]
    /\ byAPIKey' = [k \in UNION {file.users[u].keys : u \in byID'} |-> CHOOSE u \in byID' : k \in file.users[u].keys]
    /\ UNCHANGED <<file, created, raced, promised>>

\* No tenant: there is no snapshot, or it could not be read or parsed
BootstrapAdmin(saved) ==
    /\ Boot
    /\ Create(Admin, "active", TRUE)
    /\ file' = IF saved THEN [op |-> "snapshot", users |-> user'] ELSE file
    /\ promised' = {}

-----------------------------------------------------------------------------
Requests(h) ==
    \/ \E e \in Emails : CreateUser(h, e) \/ SSOLookup(h, e) \/ \E s \in Statuses : SCIMCreateUser(h, e, s)
    \/ \E u \in byID : ApiKeyGenerate(h, u) \/ SCIMDeleteUser(h, u)
    \/ \E u \in byID, asked \in Statuses \cup {"same"} : SCIMPatchRead(h, u, asked)
    \/ \E c \in Credentials : LoginAdmit(h, c)
    \/ ApiKeyWritten(h) \/ ApiKeyUpdate(h) \/ SCIMPatchWrite(h) \/ SSOIssue(h) \/ LoginCheck(h)

Next ==
    \/ Clock
    \/ \E h \in Handlers : Requests(h)
    \/ \E saved \in BOOLEAN : Stop(saved) \/ BootstrapAdmin(saved)
    \/ Crash \/ LoadSnapshot

Spec == Init /\ [][Next]_vars

-----------------------------------------------------------------------------
Objects == [email : Emails, status : Statuses, pw : BOOLEAN, keys : SUBSET (1..MaxKeys)]
IsPartial(f, D, R) == DOMAIN f \subseteq D /\ \A x \in DOMAIN f : f[x] \in R

(* Types.  The guard has one key for all API keys. *)
TypeOK ==
    /\ now \in Nat /\ running \in BOOLEAN
    /\ IsPartial(user, 1..MaxUsers, Objects)
    /\ byID \subseteq DOMAIN user
    /\ IsPartial(byEmail, Emails, byID) /\ IsPartial(byAPIKey, 1..MaxKeys, byID)
    /\ IsPartial(records, {<<"apikey">>} \cup Emails \X Spellings,
                 [failures : Nat \ {0}, windowStart : 0..now, lockedUntil : {Zero} \cup 0..now + Lockout])
    /\ file # NoFile => IsPartial(file.users, 1..MaxUsers, Objects)
    /\ raced \subseteq DOMAIN user
    /\ promised \subseteq [key : 1..MaxKeys, owner : 1..MaxUsers]

(* The indexes of MemUserStore agree with byID, across Create, Update, Delete   *)
(* and a restore, in whatever order requests interleave: an address leads to    *)
(* the one user who has it, and an API key to a user who exists (ResolveAPIKey  *)
(* would otherwise hand out a nil *User) and holds it, unless that user's map   *)
(* of keys was accessed during a write.  The records stay well formed (TypeOK). *)
IndexesAgree ==
    /\ TypeOK
    /\ \A u \in byID : user[u].email \in DOMAIN byEmail /\ byEmail[user[u].email] = u
    /\ \A e \in DOMAIN byEmail : byEmail[e] \in byID /\ user[byEmail[e]].email = e
    /\ \A k \in DOMAIN byAPIKey :
          /\ byAPIKey[k] \in byID
          /\ byAPIKey[k] \in raced \/ k \in user[byAPIKey[k]].keys

(* An API key answered with 201 works as long as its owner exists, unless the   *)
(* owner's map of keys was read or written while GenerateAPIKey was writing to  *)
(* it: key creations one after the other, and the SCIM patches and SSO logins   *)
(* between GenerateAPIKey and its Update, never lose it, and a restart brings   *)
(* it back unless the snapshot on disk was older.                              *)
IssuedKeysWork ==
    running => \A p \in promised : p.owner \in byID \ raced => p.key \in DOMAIN byAPIKey /\ byAPIKey[p.key] = p.owner

(* The guard is asked before the credentials are checked and told afterwards,   *)
(* so concurrent attempts can exceed the limit, but only by those already       *)
(* admitted: however windows and lockouts begin and end, a record never counts  *)
(* more than MaxFailures plus one for each other handler.  There is a record    *)
(* for each spelling of tenant and address.                                    *)
LockoutBound ==
    \A k \in DOMAIN records : records[k].failures <= MaxFailures + Cardinality(Handlers) - 1
=============================================================================

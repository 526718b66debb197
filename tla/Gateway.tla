------------------------------- MODULE Gateway -------------------------------
(***************************************************************************)
(* The command gateway both servers put before the dispatcher              *)
(* (security/command_gateway.js): the token bucket of each client, the     *)
(* decision on a command, and the audit trail (audit_logger.js), with the  *)
(* roles of rbac.js.  A tick of the clock is the time that refills Refill  *)
(* tokens.  What a command does is left to Keyspace and Transactions.      *)
(***************************************************************************)
EXTENDS Integers, Sequences, FiniteSets, SequencesExt

CONSTANTS
  GatewayClient,   \* userId of a client, or its address
  Session,         \* sessions clients start with: [authenticated, role, known, workspace]
  Capacity,        \* RateLimiter.capacity
  Refill,          \* tokens a tick brings
  MaxEntries,      \* AuditLogger.maxEntries
  MaxClock,        \* bound of the model on the clock
  MaxEvents        \* bound of the model on audited commands

ASSUME GatewayAssumption ==
  Capacity \in Nat \ {0} /\ Refill \in Nat /\ MaxEntries \in Nat /\ MaxClock \in Nat

VARIABLES
  clock,         \* Date.now()
  buckets,       \* RateLimiter.buckets: client -> [tokens, lastRefill]
  sessions,      \* clientContext of each client
  requirepass,   \* whether the configuration asks for a password
  entries,       \* AuditLogger.entries: a sequence of [id, who, status]
  counter,       \* AuditLogger._counter
  since,         \* observer: the start of a window of time, any and fixed
  admitted       \* observer: commands of each client the limiter let pass since then

gatewayVars ==
  <<clock, buckets, sessions, requirepass, entries, counter, since, admitted>>

GatewayInit ==
  /\ clock = 0
  /\ buckets = [c \in {} |-> [tokens |-> 0, lastRefill |-> 0]]
  /\ sessions \in [GatewayClient -> Session]
  /\ requirepass \in BOOLEAN
  /\ entries = <<>> /\ counter = 1
  /\ since \in 0..MaxClock
  /\ admitted = [c \in GatewayClient |-> 0]

-----------------------------------------------------------------------------
\* consume: a new bucket is full; an old one is refilled for the time since its
\* last use, never above its capacity. RefilledPast forgets the capacity.
Full == [tokens |-> Capacity, lastRefill |-> clock]
Least(a, b) == IF a <= b THEN a ELSE b
RefilledPast(c) ==
  IF c \notin DOMAIN buckets THEN Full
  ELSE [tokens |-> buckets[c].tokens + Refill * (clock - buckets[c].lastRefill),
        lastRefill |-> clock]
Refilled(c) ==
  IF c \notin DOMAIN buckets THEN Full
  ELSE [tokens |-> Least(Capacity,
                         buckets[c].tokens + Refill * (clock - buckets[c].lastRefill)),
        lastRefill |-> clock]

Consumed(c) ==
  LET b == Refilled(c)
  IN IF b.tokens >= 1 THEN [b EXCEPT !.tokens = @ - 1] ELSE b

Consume(c) ==
  /\ buckets' = [d \in DOMAIN buckets \cup {c} |-> IF d = c THEN Consumed(c) ELSE buckets[d]]
  /\ admitted' = IF Refilled(c).tokens >= 1 /\ clock >= since
                 THEN [admitted EXCEPT ![c] = @ + 1] ELSE admitted

\* log: the oldest record leaves a full trail. LoggedEarly drops it one record early.
LoggedEarly(record) ==
  LET all == Append(entries, record)
  IN IF Len(all) >= MaxEntries THEN Tail(all) ELSE all
Logged(record) ==
  LET all == Append(entries, record)
  IN IF Len(all) > MaxEntries THEN Tail(all) ELSE all

AuditLog(c, status) ==
  /\ entries' = Logged([id |-> counter, who |-> c, status |-> status])
  /\ counter' = counter + 1

-----------------------------------------------------------------------------
\* Kinds of command, by the permission rbac.js asks for and whether it is
\* dangerous; replicaof is dangerous but asks for no more than a developer has.
Kind == {"preauth", "read", "write", "replicaof", "admin"}
Permits(role, kind) ==
  \/ role = "admin"
  \/ kind = "read" /\ role \in {"viewer", "developer", "operator"}
  \/ kind \in {"write", "replicaof"} /\ role \in {"developer", "operator"}
Dangerous == {"replicaof", "admin"}

\* The role of a session that has none.
UserRole(s) ==
  IF s.role # "none" THEN s.role
  ELSE IF s.authenticated \/ ~s.known THEN "admin" ELSE "developer"

\* execute after the limiter: what it decides, in the order of its checks.
Decision(s, kind, confirmed, confirms) ==
  IF kind = "preauth" THEN "ALLOWED"
  ELSE IF requirepass /\ ~s.authenticated THEN "UNAUTHENTICATED"
  ELSE IF s.known /\ s.workspace = "denied" THEN "WORKSPACE_DENIED"
  ELSE IF ~Permits(UserRole(s), kind) THEN "PERMISSION_DENIED"
  ELSE IF kind \in Dangerous /\ UserRole(s) # "admin" THEN "DANGEROUS_BLOCKED"
  ELSE IF kind \in Dangerous /\ confirms /\ ~confirmed THEN "CONFIRMATION_REQUIRED"
  ELSE "ALLOWED"

\* execute. `right`: the command is AUTH with the password. A command that still
\* wants its confirmation has cost a token but leaves no record.
Execute(c, kind, confirmed, confirms, right) ==
  LET decision == Decision(sessions[c], kind, confirmed, confirms)
      logged == IF Refilled(c).tokens < 1 THEN "RATE_LIMITED" ELSE decision
      login == kind = "preauth" /\ right /\ logged = "ALLOWED"
  IN /\ counter <= MaxEvents
     /\ Consume(c)
     /\ IF logged = "CONFIRMATION_REQUIRED" THEN UNCHANGED <<entries, counter>>
        ELSE AuditLog(c, logged)
     /\ sessions' = IF login
                    THEN [sessions EXCEPT ![c].authenticated = TRUE, ![c].role = "admin"]
                    ELSE sessions
     /\ UNCHANGED <<clock, requirepass, since>>

\* An empty command is refused before anything is counted.
Tick ==
  /\ clock < MaxClock
  /\ clock' = clock + 1
  /\ UNCHANGED <<buckets, sessions, requirepass, entries, counter, since, admitted>>

GatewayNext ==
  \/ \E c \in GatewayClient, kind \in Kind, confirmed, confirms, right \in BOOLEAN :
       Execute(c, kind, confirmed, confirms, right)
  \/ Tick

GatewaySpec == GatewayInit /\ [][GatewayNext]_gatewayVars

-----------------------------------------------------------------------------
\* In any window of time a client gets no more commands through than one full
\* bucket and what the window refills, however long it was idle before.
RateBound ==
  \A c \in GatewayClient :
    admitted[c] > 0 => admitted[c] <= Capacity + Refill * (clock - since)

\* The trail is the newest records without a gap: nothing is dropped before the
\* trail is full, and only the oldest afterwards.
AuditExact ==
  /\ Len(entries) = Least(counter - 1, MaxEntries)
  /\ \A i \in DOMAIN entries : entries[i].id = counter - 1 - (Len(entries) - i)
=============================================================================

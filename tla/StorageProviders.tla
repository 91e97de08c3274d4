-------------------------- MODULE StorageProviders --------------------------
(***************************************************************************)
(* Storage providers: the service (internal/storage/provider_service.go),  *)
(* its handlers, its repository and the encryption of credentials at rest  *)
(* (crypto.go).  A request is several statements of SQL without a          *)
(* transaction, and requests interleave:                                   *)
(*                                                                         *)
(*   create       ClearDefault (of a default), INSERT                      *)
(*   update       read, ClearDefault (of a default), UPDATE                *)
(*   set-default  read in the handler, then update with that copy, whose   *)
(*                secret is masked                                         *)
(*                                                                         *)
(* The process may restart, with another master key.                       *)
(***************************************************************************)
EXTENDS Naturals, Sequences, FiniteSets

CONSTANTS Ids, Callers,
          Keys,         \* master keys
          MaxRequests,  \* bound: requests
          MaxRestarts,  \* bound: restarts of the process
          MaxFaults     \* bound: statements that fail

ASSUME ProvidersAssumption ==
    /\ Keys # {}
    /\ MaxRequests \in Nat /\ MaxRestarts \in Nat /\ MaxFaults \in Nat

VARIABLES
    table, rec,     \* the rows of storage_providers
    used,           \* rows that schedules or backups refer to
    master,         \* the key of the process
    pc, arg,        \* callers: the next step, and the *Provider at hand
    wish,           \* history: what each request sets, 0 for what it keeps
    fresh,          \* history: no other write to the row since it was read
    alone,          \* history: no other default written since ClearDefault
    intent,         \* history: the row as the requests, one by one, want it
    lost,           \* history: rows written from a copy that was stale
    contested,      \* history: a default was written next to another
    rotated,        \* history: the master key has changed
    requests, restarts, faults

dbVars == <<table, rec, used>>
history == <<wish, fresh, alone, intent, lost, contested>>
bounds == <<requests, restarts, faults>>
vars == <<dbVars, master, pc, arg, history, rotated, bounds>>

-----------------------------------------------------------------------------
(* Definitions named "...Bug" are variants with a plausible mistake, which a *)
(* property must reject; no specification uses them.                         *)

(* What a user enters in the n-th request is called n: 0 is "nothing", an  *)
(* empty field or, in an update, a masked one.                             *)

(* Credentials.  A stored one is a value under the keys it was sealed with; *)
(* opening it with the wrong key gives it back as it is, and an empty one   *)
(* stays empty either way.                                                  *)
Plain(v) == [value |-> v, keys |-> <<>>]
Mask == Plain(0)
MustEncrypt(c) == IF c = Mask THEN c ELSE [c EXCEPT !.keys = Append(@, master)]
MustDecrypt(c) ==
    IF c.keys # <<>> /\ c.keys[Len(c.keys)] = master
    THEN [c EXCEPT !.keys = SubSeq(@, 1, Len(@) - 1)] ELSE c

Provider(id, cfg, access, secret, default) ==
    [id |-> id, cfg |-> cfg, access |-> access, secret |-> secret, default |-> default]
NoProvider == Provider("none", 0, Mask, Mask, FALSE)
Entered(cfg, access, secret) == [cfg |-> cfg, access |-> access, secret |-> secret]
Held(p) == Entered(p.cfg, p.access.value, p.secret.value)
KeepAll == Entered(0, 0, 0)
Granted(now, w) == [f \in DOMAIN now |-> IF w[f] = 0 THEN now[f] ELSE w[f]]
Defaults == {id \in table : rec[id].default}

Init ==
    /\ table = {} /\ used = {} /\ rec = [id \in Ids |-> NoProvider]
    /\ master \in Keys
    /\ pc = [c \in Callers |-> "idle"]
    /\ arg = [c \in Callers |-> NoProvider] /\ wish = [c \in Callers |-> KeepAll]
    /\ fresh = [c \in Callers |-> TRUE] /\ alone = [c \in Callers |-> FALSE]
    /\ intent = [id \in Ids |-> Held(NoProvider)]
    /\ lost = {} /\ contested = FALSE /\ rotated = FALSE
    /\ requests = 0 /\ restarts = 0 /\ faults = 0

Goto(c, l) == pc' = [pc EXCEPT ![c] = l]
Return(c) ==
    /\ Goto(c, "idle")
    /\ arg' = [arg EXCEPT ![c] = NoProvider]
    /\ wish' = [wish EXCEPT ![c] = KeepAll]

Request(c, l, p, w) ==
    /\ pc[c] = "idle" /\ requests < MaxRequests
    /\ requests' = requests + 1
    /\ Goto(c, l)
    /\ arg' = [arg EXCEPT ![c] = p]
    /\ wish' = [wish EXCEPT ![c] = w]
    /\ fresh' = [fresh EXCEPT ![c] = TRUE] /\ alone' = [alone EXCEPT ![c] = FALSE]
    /\ UNCHANGED <<dbVars, master, intent, lost, contested, rotated, restarts, faults>>

-----------------------------------------------------------------------------
(* Requests. *)
\* Credentials may be missing.
handleCreate(c) ==
    \E id \in Ids, default \in BOOLEAN : LET v == requests + 1 IN \E a, s \in {0, v} :
        /\ \A d \in Callers : arg[d].id # id
        /\ rec[id] = NoProvider                  \* a new UUID
        /\ Request(c, IF default THEN "clear" ELSE "write",
                   Provider(id, v, MustEncrypt(Plain(a)), MustEncrypt(Plain(s)), default),
                   Entered(v, a, s))

\* The body has a new access key and a new secret, or leaves either out.
handleUpdate(c) ==
    \E id \in {i \in Ids : rec[i] # NoProvider}, default \in BOOLEAN :
        LET v == requests + 1 IN \E a, s \in {0, v} :
            Request(c, "read", Provider(id, v, Plain(a), Plain(s), default), Entered(v, a, s))

\* GetByID decrypts the access key and masks the secret.
handleSetDefault(c) ==
    \E id \in table :
        Request(c, "read",
                [rec[id] EXCEPT !.access = MustDecrypt(@), !.secret = Mask, !.default = TRUE],
                KeepAll)

handleDelete(c) ==
    \E id \in table \ used :
        /\ pc[c] = "idle" /\ requests < MaxRequests
        /\ requests' = requests + 1
        /\ table' = table \ {id}
        /\ UNCHANGED <<rec, used, master, pc, arg, history, rotated, restarts, faults>>

-----------------------------------------------------------------------------
(* ProviderService.Update: the row is read, for what the caller leaves as *)
(* it is.                                                                 *)
MergedMaskBug(p, existing) == \* the mask taken for a secret
    [p EXCEPT !.access = IF @ = Mask THEN existing.access ELSE MustEncrypt(@),
              !.secret = MustEncrypt(@)]

MergedTwiceBug(p, existing) == \* what is kept is encrypted again
    [p EXCEPT !.access = MustEncrypt(IF @ = Mask THEN existing.access ELSE @),
              !.secret = MustEncrypt(IF @ = Mask THEN existing.secret ELSE @)]

Merged(p, existing) ==
    [p EXCEPT !.access = IF @ = Mask THEN existing.access ELSE MustEncrypt(@),
              !.secret = IF @ = Mask THEN existing.secret ELSE MustEncrypt(@)]

ReadExisting(c) ==
    /\ pc[c] = "read"
    /\ IF arg[c].id \in table
       THEN /\ arg' = [arg EXCEPT ![c] = Merged(@, rec[arg[c].id])]
            /\ Goto(c, IF arg[c].default THEN "clear" ELSE "write")
            /\ UNCHANGED wish
       ELSE Return(c)
    /\ fresh' = [fresh EXCEPT ![c] = @ \/ wish[c] # KeepAll]
    /\ UNCHANGED <<dbVars, master, alone, intent, lost, contested, rotated, bounds>>

ClearDefaultOwnBug(c) == \* is_default = 0 WHERE id = $1
    /\ pc[c] = "clear"
    /\ rec' = [rec EXCEPT ![arg[c].id].default = FALSE]
    /\ alone' = [alone EXCEPT ![c] = TRUE]
    /\ Goto(c, "write")
    /\ UNCHANGED <<table, used, master, arg, wish, fresh, intent, lost, contested, rotated, bounds>>

ClearDefault(c) ==
    /\ pc[c] = "clear"
    /\ rec' = [id \in Ids |-> IF id = arg[c].id THEN rec[id] ELSE [rec[id] EXCEPT !.default = FALSE]]
    /\ alone' = [alone EXCEPT ![c] = TRUE]
    /\ Goto(c, "write")
    /\ UNCHANGED <<table, used, master, arg, wish, fresh, intent, lost, contested, rotated, bounds>>

\* INSERT of a new row, or UPDATE ... WHERE id, for which a row that has gone
\* is no error.
Written(c, id) ==
    /\ rec' = [rec EXCEPT ![id] = arg[c]]
    /\ table' = table \cup {id}
    /\ intent' = [intent EXCEPT ![id] = Granted(@, wish[c])]
    /\ lost' = IF 0 \notin {wish[c][f] : f \in DOMAIN wish[c]} THEN lost \ {id}
               ELSE IF fresh[c] THEN lost ELSE lost \cup {id}
    /\ fresh' = [d \in Callers |-> fresh[d] /\ (d = c \/ arg[d].id # id)]
    /\ IF arg[c].default
       THEN /\ contested' = ~alone[c]
            /\ alone' = [d \in Callers |-> d = c]
       ELSE UNCHANGED <<contested, alone>>

Write(c) ==
    /\ pc[c] = "write"
    /\ LET id == arg[c].id IN
       IF id \in table \/ rec[id] = NoProvider
       THEN Written(c, id)
       ELSE UNCHANGED <<table, rec, fresh, alone, intent, lost, contested>>
    /\ Return(c)
    /\ UNCHANGED <<used, master, rotated, bounds>>

StatementFails(c) ==
    /\ pc[c] \in {"read", "clear", "write"} /\ faults < MaxFaults
    /\ faults' = faults + 1
    /\ Return(c)
    /\ UNCHANGED <<dbVars, master, fresh, alone, intent, lost, contested, rotated, requests, restarts>>

-----------------------------------------------------------------------------
\* A schedule or a backup names the provider: the row can no longer go.
Use(id) ==
    /\ id \in table \ used
    /\ used' = used \cup {id}
    /\ UNCHANGED <<table, rec, master, pc, arg, history, rotated, bounds>>

\* The process comes back with the master key it had, or with another.
Restart(k) ==
    /\ restarts < MaxRestarts
    /\ restarts' = restarts + 1
    /\ master' = k
    /\ rotated' = (rotated \/ k # master)
    /\ pc' = [c \in Callers |-> "idle"]
    /\ arg' = [c \in Callers |-> NoProvider] /\ wish' = [c \in Callers |-> KeepAll]
    /\ UNCHANGED <<dbVars, fresh, alone, intent, lost, contested, requests, faults>>

Next ==
    \/ \E c \in Callers :
        \/ handleCreate(c) \/ handleUpdate(c) \/ handleSetDefault(c) \/ handleDelete(c)
        \/ ReadExisting(c) \/ ClearDefault(c) \/ Write(c) \/ StatementFails(c)
    \/ \E id \in Ids : Use(id)
    \/ \E k \in Keys : Restart(k)

Spec == Init /\ [][Next]_vars

-----------------------------------------------------------------------------
Text == 0 .. MaxRequests
Credential == [value : Text, keys : UNION {[1 .. n -> Keys] : n \in 0 .. 2 + MaxRestarts}]
Stored(c) == c \in Credential /\ (c.keys = <<>> <=> c.value = 0)

\* Types; what the table has of credentials is sealed, unless it is empty.
TypeOK ==
    /\ table \subseteq Ids /\ used \subseteq table /\ master \in Keys
    /\ \A id \in table : rec[id].cfg \in Text /\ Stored(rec[id].access) /\ Stored(rec[id].secret)
    /\ pc \in [Callers -> {"idle", "read", "clear", "write"}]
    /\ \A c \in Callers : arg[c].access \in Credential /\ arg[c].secret \in Credential
    /\ intent \in [Ids -> [{"cfg", "access", "secret"} -> Text]]

\* A row holds what the requests for it have set, one after the other: a
\* masked or empty access key or secret keeps the one that was entered, and
\* becoming the default changes nothing else.  The exception is a row written
\* from a copy that another request has overtaken, and the next request that
\* sets everything repairs that.
UpdatesKept == \A id \in table \ lost : Held(rec[id]) = intent[id]

\* Credentials are sealed once, however often the row is rewritten, so that
\* the master key they were entered under gives them back, and one that was
\* left empty is never taken for a sealed one.  Only an access key, which
\* set-default reads and writes, can be sealed twice, when the master key was
\* changed before.
CredentialsIntact ==
    \A id \in table : LET a == rec[id].access  s == rec[id].secret IN
        /\ Len(s.keys) = IF s.value = 0 THEN 0 ELSE 1
        /\ Len(a.keys) = 0 <=> a.value = 0
        /\ Len(a.keys) > 1 => rotated

\* At most one provider is the default, unless two requests that make one
\* had cleared the others before either wrote its own; the next such request
\* that runs alone repairs that.
OneDefault == Cardinality(Defaults) > 1 => contested
=============================================================================

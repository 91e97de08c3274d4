----------------------- MODULE StorageProvidersProofs -----------------------
(***************************************************************************)
(* Proofs about StorageProviders, for every number of providers, callers,  *)
(* requests, restarts and master keys, and for any statements that fail.   *)
(***************************************************************************)
EXTENDS StorageProviders, SequenceTheorems, FiniteSetTheorems, TLAPS

-----------------------------------------------------------------------------
(* The inductive invariant, in parts. *)

Fields == {"cfg", "access", "secret"}
Sealable == [value : Text, keys : Seq(Keys)]
Row == [id : Ids, cfg : Text \ {0}, access : Sealable, secret : Sealable, default : BOOLEAN]

Types ==
    /\ table \subseteq Ids /\ used \subseteq table /\ master \in Keys
    /\ pc \in [Callers -> {"idle", "read", "clear", "write"}]
    /\ wish \in [Callers -> [Fields -> Text]]
    /\ intent \in [Ids -> [Fields -> Text]]
    /\ fresh \in [Callers -> BOOLEAN] /\ alone \in [Callers -> BOOLEAN]
    /\ contested \in BOOLEAN /\ rotated \in BOOLEAN
    /\ requests \in 0 .. MaxRequests /\ restarts \in 0 .. MaxRestarts
    /\ DOMAIN rec = Ids /\ DOMAIN arg = Callers

\* Credentials as the table has them, when they are not empty: the secret is
\* sealed once, the access key at most once more for each restart, and then
\* with the present key.
Sealed(p) ==
    /\ Len(p.secret.keys) = IF p.secret.value = 0 THEN 0 ELSE 1
    /\ Len(p.access.keys) \in 0 .. restarts + 1
    /\ Len(p.access.keys) = 0 <=> p.access.value = 0
    /\ Len(p.access.keys) = restarts + 1 => p.access.keys[restarts + 1] = master
    /\ ~rotated => \/ Len(p.access.keys) = 0
                   \/ Len(p.access.keys) = 1 /\ p.access.keys[1] = master

\* Credentials as a request has them, before they are sealed.
Opened(p) ==
    /\ Len(p.secret.keys) = 0
    /\ Len(p.access.keys) <= restarts
    /\ p.access.value = 0 \/ ~rotated => Len(p.access.keys) = 0

Rows ==
    /\ \A id \in Ids : rec[id] # NoProvider => rec[id] \in Row /\ rec[id].id = id /\ Sealed(rec[id])
    /\ \A id \in table : rec[id] # NoProvider
    /\ \A id \in Ids : rec[id] = NoProvider => intent[id] = Held(NoProvider)

Ready(c) == pc[c] \in {"clear", "write"}

Prepared(c) ==
    /\ IF pc[c] = "idle" THEN arg[c] = NoProvider ELSE arg[c] \in Row
    /\ pc[c] = "read" => Opened(arg[c])
    /\ Ready(c) => Sealed(arg[c])

\* Before the row is read again: an update, and a set-default with its copy.
Asked(c) ==
    pc[c] = "read" => LET id == arg[c].id IN
        /\ rec[id] # NoProvider
        /\ \/ wish[c] = Held(arg[c])
           \/ /\ wish[c] = KeepAll /\ arg[c].secret.value = 0
              /\ fresh[c] /\ id \in table =>
                    arg[c].cfg = rec[id].cfg /\ arg[c].access.value = rec[id].access.value

\* What is about to be written: what the request sets, and for the rest what
\* the row has, or had when it was read; nothing, when the row is new.
Filled(c, f) ==
    Ready(c) => LET id == arg[c].id IN
        \/ wish[c][f] # 0 /\ Held(arg[c])[f] = wish[c][f]
        \/ /\ wish[c][f] = 0
           /\ rec[id] = NoProvider => Held(arg[c])[f] = 0
           /\ fresh[c] /\ id \in table => Held(arg[c])[f] = Held(rec[id])[f]

\* A request that makes a default and was not disturbed since ClearDefault.
Cleared(c) ==
    pc[c] = "write" /\ arg[c].default /\ alone[c] => \A id \in Defaults : id = arg[c].id

Caller(c) == Prepared(c) /\ Asked(c) /\ (\A f \in Fields : Filled(c, f)) /\ Cleared(c)

FewDefaults == ~contested => \A p, q \in Defaults : p = q

IInv == Types /\ Rows /\ UpdatesKept /\ FewDefaults /\ \A c \in Callers : Caller(c)

-----------------------------------------------------------------------------
(* Credentials and rows. *)

LEMMA EncryptAdds ==
    ASSUME Types, NEW c \in Sealable, c # Mask
    PROVE  /\ MustEncrypt(c) \in Sealable /\ MustEncrypt(c).value = c.value
           /\ Len(MustEncrypt(c).keys) = Len(c.keys) + 1
           /\ MustEncrypt(c).keys[Len(c.keys) + 1] = master
<1>1. c.keys \in Seq(Keys) /\ master \in Keys
  BY DEF Types, Sealable
<1>2. /\ Append(c.keys, master) \in Seq(Keys)
      /\ Len(Append(c.keys, master)) = Len(c.keys) + 1
      /\ Append(c.keys, master)[Len(c.keys) + 1] = master
  BY <1>1, AppendProperties
<1> QED BY <1>2 DEF MustEncrypt, Sealable

LEMMA DecryptRemoves ==
    ASSUME Types, NEW c \in Sealable, Len(c.keys) \in 0 .. restarts + 1,
           Len(c.keys) = restarts + 1 => c.keys[restarts + 1] = master
    PROVE  /\ MustDecrypt(c) \in Sealable /\ MustDecrypt(c).value = c.value
           /\ Len(MustDecrypt(c).keys) <= restarts
           /\ Len(c.keys) = 0 \/ (Len(c.keys) = 1 /\ c.keys[1] = master) =>
                 Len(MustDecrypt(c).keys) = 0
<1>1. c.keys \in Seq(Keys) /\ restarts \in Nat /\ Len(c.keys) \in Nat
  BY ProvidersAssumption, LenProperties DEF Types, Sealable
<1>2. CASE c.keys # <<>> /\ c.keys[Len(c.keys)] = master
  <2>1. /\ SubSeq(c.keys, 1, Len(c.keys) - 1) \in Seq(Keys)
        /\ Len(SubSeq(c.keys, 1, Len(c.keys) - 1)) = Len(c.keys) - 1
    <3>1. Len(c.keys) # 0
      BY <1>1, <1>2
    <3> QED BY <1>1, <3>1, SubSeqProperties
  <2>2. MustDecrypt(c) = [c EXCEPT !.keys = SubSeq(c.keys, 1, Len(c.keys) - 1)]
    BY <1>2 DEF MustDecrypt
  <2>3. /\ MustDecrypt(c) \in Sealable /\ MustDecrypt(c).value = c.value
        /\ Len(MustDecrypt(c).keys) = Len(c.keys) - 1
    BY <2>1, <2>2 DEF Sealable
  <2>4. Len(c.keys) # 0
    BY <1>1, <1>2
  <2> QED BY <1>1, <2>3, <2>4
<1>3. CASE c.keys = <<>> \/ c.keys[Len(c.keys)] # master
  <2>1. MustDecrypt(c) = c
    BY <1>3 DEF MustDecrypt
  <2>2. c.keys = <<>> => Len(c.keys) = 0
    OBVIOUS
  <2> QED BY <1>1, <1>3, <2>1, <2>2
<1> QED BY <1>2, <1>3

LEMMA PlainSealable == ASSUME Types, NEW v \in Text PROVE Plain(v) \in Sealable /\ Plain(v).value = v /\ Len(Plain(v).keys) = 0
BY DEF Plain, Sealable

LEMMA IsMask == ASSUME NEW c \in Sealable PROVE c = Mask <=> c.value = 0 /\ Len(c.keys) = 0
BY DEF Mask, Plain, Sealable

LEMMA RowIsProvider == ASSUME NEW p \in Row PROVE p # NoProvider
BY DEF Row, NoProvider, Provider

\* What is entered is sealed with the present key, unless it is empty.
LEMMA EnteredSealed ==
    ASSUME Types, NEW v \in Text
    PROVE  LET s == MustEncrypt(Plain(v)) IN
           /\ s \in Sealable /\ s.value = v
           /\ Len(s.keys) = IF v = 0 THEN 0 ELSE 1
           /\ v # 0 => s.keys[1] = master
<1> DEFINE s == MustEncrypt(Plain(v))
<1>1. Plain(v) \in Sealable /\ Plain(v).value = v /\ Len(Plain(v).keys) = 0
  BY PlainSealable
<1>2. CASE v = 0
  <2>1. s = Plain(v)
    BY <1>2 DEF MustEncrypt, Mask
  <2> QED BY <1>1, <1>2, <2>1
<1>3. CASE v # 0
  <2>1. Plain(v) # Mask
    BY <1>1, <1>3, IsMask
  <2>2. /\ s \in Sealable /\ s.value = Plain(v).value /\ Len(s.keys) = Len(Plain(v).keys) + 1
        /\ s.keys[Len(Plain(v).keys) + 1] = master
    BY <1>1, <2>1, EncryptAdds
  <2> HIDE DEF s
  <2>3. /\ s \in Sealable /\ s.value = v /\ Len(s.keys) = 1 /\ s.keys[1] = master
    BY <1>1, <2>2
  <2> QED BY <1>3, <2>3 DEF s
<1> QED BY <1>2, <1>3

\* Losing the default changes nothing else.
LEMMA NoLongerDefault ==
    ASSUME NEW p \in Row, NEW q, q = [p EXCEPT !.default = FALSE]
    PROVE  /\ q \in Row /\ q.id = p.id /\ Held(q) = Held(p)
           /\ q.access = p.access /\ q.secret = p.secret /\ q.default = FALSE
BY DEF Row, Held

LEMMA HeldFields ==
    ASSUME NEW p
    PROVE  /\ Held(p).cfg = p.cfg /\ Held(p).access = p.access.value /\ Held(p).secret = p.secret.value
           /\ DOMAIN Held(p) = Fields
BY DEF Held, Entered, Fields

LEMMA SameHeld ==
    ASSUME NEW p \in Row, NEW w \in [Fields -> Text], \A f \in Fields : Held(p)[f] = w[f]
    PROVE  Held(p) = w
BY HeldFields DEF Fields, Held, Entered

LEMMA KeepAllType == KeepAll \in [Fields -> Text] /\ \A f \in Fields : KeepAll[f] = 0
BY ProvidersAssumption DEF KeepAll, Entered, Fields, Text

LEMMA EnteredType ==
    ASSUME NEW a \in Text, NEW b \in Text, NEW d \in Text
    PROVE  /\ Entered(a, b, d) \in [Fields -> Text] 
           /\ Entered(a, b, d).cfg = a /\ Entered(a, b, d).access = b /\ Entered(a, b, d).secret = d
BY DEF Entered, Fields

-----------------------------------------------------------------------------
(* The steps of the proof. *)

LEMMA InitInv == Init => IInv
<1> SUFFICES ASSUME Init PROVE IInv
  OBVIOUS
<1>1. Held(NoProvider) \in [Fields -> Text]
  BY ProvidersAssumption DEF Held, NoProvider, Provider, Mask, Plain, Entered, Fields, Text
<1>2. Types
  <2>1. wish \in [Callers -> [Fields -> Text]]
    BY KeepAllType DEF Init
  <2>2. intent \in [Ids -> [Fields -> Text]]
    BY <1>1 DEF Init
  <2>3. fresh \in [Callers -> BOOLEAN] /\ alone \in [Callers -> BOOLEAN]
    BY DEF Init
  <2>4. requests \in 0 .. MaxRequests /\ restarts \in 0 .. MaxRestarts
    BY ProvidersAssumption DEF Init
  <2>5. pc \in [Callers -> {"idle", "read", "clear", "write"}]
    BY DEF Init
  <2> QED BY <2>1, <2>2, <2>3, <2>4, <2>5 DEF Init, Types
<1>3. Rows /\ UpdatesKept /\ FewDefaults
  BY DEF Init, Rows, UpdatesKept, FewDefaults, Defaults
<1>4. \A c \in Callers : Caller(c)
  BY DEF Init, Caller, Prepared, Asked, Filled, Cleared, Ready
<1> QED BY <1>2, <1>3, <1>4 DEF IInv

\* A caller that does not move, while others leave the row it has read alone
\* or take away its claims.
LEMMA Bystander ==
    ASSUME IInv, NEW c \in Callers,
           pc'[c] = pc[c], arg'[c] = arg[c], wish'[c] = wish[c],
           fresh'[c] => fresh[c], alone'[c] => alone[c],
           UNCHANGED <<master, restarts, rotated>>,
           \A id \in Ids : rec[id] # NoProvider => rec'[id] # NoProvider,
           fresh'[c] /\ arg[c].id \in table' =>
              arg[c].id \in table /\ Held(rec'[arg[c].id]) = Held(rec[arg[c].id]),
           alone'[c] => Defaults' \subseteq Defaults
    PROVE  Caller(c)'
<1>0. Prepared(c) /\ Asked(c) /\ (\A f \in Fields : Filled(c, f)) /\ Cleared(c)
  BY DEF IInv, Caller
<1>a. pc[c] # "idle" => arg[c].id \in Ids
  BY <1>0 DEF Prepared, Row
<1>1. Prepared(c)'
  BY <1>0 DEF Prepared, Ready, Sealed, Opened
<1>2. Asked(c)'
  <2>1. fresh'[c] /\ arg[c].id \in table' =>
           /\ fresh[c] /\ arg[c].id \in table
           /\ rec'[arg[c].id].cfg = rec[arg[c].id].cfg
           /\ rec'[arg[c].id].access.value = rec[arg[c].id].access.value
    BY HeldFields
  <2> QED BY <1>0, <1>a, <2>1 DEF Asked
<1>3. ASSUME NEW f \in Fields PROVE Filled(c, f)'
  <2>1. Filled(c, f) BY <1>0
  <2>2. fresh'[c] /\ arg[c].id \in table' =>
           /\ fresh[c] /\ arg[c].id \in table
           /\ Held(rec'[arg[c].id])[f] = Held(rec[arg[c].id])[f]
    OBVIOUS
  <2>3. pc[c] # "idle" => (rec'[arg[c].id] = NoProvider => rec[arg[c].id] = NoProvider)
    BY <1>a
  <2> QED BY <2>1, <2>2, <2>3 DEF Filled, Ready
<1>4. Cleared(c)'
  BY <1>0 DEF Cleared
<1> QED BY <1>1, <1>2, <1>3, <1>4 DEF Caller

\* A request that begins, with what it asks for.
LEMMA RequestInv ==
    ASSUME IInv, NEW c \in Callers, NEW l \in {"read", "clear", "write"}, NEW p \in Row,
           NEW w \in [Fields -> Text], Request(c, l, p, w),
           l = "read" =>
              /\ Opened(p) /\ rec[p.id] # NoProvider
              /\ \/ w = Held(p)
                 \/ /\ w = KeepAll /\ p.secret.value = 0
                    /\ p.cfg = rec[p.id].cfg /\ p.access.value = rec[p.id].access.value,
           l # "read" => /\ Sealed(p) /\ rec[p.id] = NoProvider
                         /\ \A f \in Fields : Held(p)[f] = w[f]
    PROVE  IInv'
<1>1. /\ pc' = [pc EXCEPT ![c] = l] /\ arg' = [arg EXCEPT ![c] = p] /\ wish' = [wish EXCEPT ![c] = w]
      /\ fresh' = [fresh EXCEPT ![c] = TRUE] /\ alone' = [alone EXCEPT ![c] = FALSE]
      /\ UNCHANGED <<table, rec, used, master, intent, lost, contested, rotated, restarts>>
      /\ requests' = requests + 1 /\ requests < MaxRequests
  BY DEF Request, Goto, dbVars
<1>2. Types'
  BY <1>1, ProvidersAssumption DEF IInv, Types
<1>3. Rows' /\ UpdatesKept' /\ FewDefaults'
  BY <1>1 DEF IInv, Rows, Sealed, UpdatesKept, FewDefaults, Defaults
<1>4. Caller(c)'
  <2>1. pc'[c] = l /\ arg'[c] = p /\ wish'[c] = w /\ ~alone'[c]
    BY <1>1 DEF IInv, Types
  <2>2. Prepared(c)'
    BY <1>1, <2>1 DEF Prepared, Ready, Opened, Sealed
  <2>3. Asked(c)'
    BY <1>1, <2>1 DEF Asked
  <2>4. \A f \in Fields : Filled(c, f)'
    <3>1. l # "read" => p.id \notin table
      BY DEF IInv, Rows
    <3> QED BY <1>1, <2>1, <3>1 DEF Filled, Ready
  <2>5. Cleared(c)'
    BY <2>1 DEF Cleared
  <2> QED BY <2>2, <2>3, <2>4, <2>5 DEF Caller
<1>5. ASSUME NEW d \in Callers, d # c PROVE Caller(d)'
  <2>1. pc'[d] = pc[d] /\ arg'[d] = arg[d] /\ wish'[d] = wish[d] /\ fresh'[d] = fresh[d] /\ alone'[d] = alone[d]
    BY <1>1, <1>5
  <2> QED BY <1>1, <2>1, Bystander DEF Defaults
<1> QED BY <1>2, <1>3, <1>4, <1>5 DEF IInv

LEMMA CreateInv == ASSUME IInv, NEW c \in Callers, handleCreate(c) PROVE IInv'
<1> DEFINE v == requests + 1
<1>1. PICK id \in Ids, default \in BOOLEAN, a \in {0, v}, s \in {0, v} :
        /\ rec[id] = NoProvider
        /\ Request(c, IF default THEN "clear" ELSE "write",
                   Provider(id, v, MustEncrypt(Plain(a)), MustEncrypt(Plain(s)), default),
                   Entered(v, a, s))
  BY DEF handleCreate
<1>2. v \in Text /\ a \in Text /\ s \in Text /\ v # 0 /\ Types /\ restarts \in Nat
  BY <1>1, ProvidersAssumption DEF Request, IInv, Types, Text
<1> DEFINE x == MustEncrypt(Plain(a))
           y == MustEncrypt(Plain(s))
           p == Provider(id, v, x, y, default)
<1>3. /\ x \in Sealable /\ x.value = a /\ Len(x.keys) = (IF a = 0 THEN 0 ELSE 1)
      /\ a # 0 => x.keys[1] = master
      /\ y \in Sealable /\ y.value = s /\ Len(y.keys) = (IF s = 0 THEN 0 ELSE 1)
  BY <1>2, EnteredSealed
<1> HIDE DEF x, y, v
<1>4. p \in Row /\ p.id = id /\ p.cfg = v /\ p.access = x /\ p.secret = y
  BY <1>2, <1>3 DEF Provider, Row
<1> HIDE DEF p
<1>5. Sealed(p)
  <2>1. Len(x.keys) \in 0 .. restarts + 1 /\ (Len(x.keys) = 0 <=> a = 0)
    BY <1>2, <1>3
  <2>2. Len(x.keys) = restarts + 1 => x.keys[restarts + 1] = master
    BY <1>2, <1>3
  <2> QED BY <1>3, <1>4, <2>1, <2>2 DEF Sealed
<1>6. Entered(v, a, s) \in [Fields -> Text] /\ Held(p) = Entered(v, a, s)
  BY <1>2, <1>3, <1>4, EnteredType DEF Held
<1> QED BY <1>1, <1>4, <1>5, <1>6, RequestInv DEF p, x, y

LEMMA UpdateInv == ASSUME IInv, NEW c \in Callers, handleUpdate(c) PROVE IInv'
<1> DEFINE v == requests + 1
<1>1. PICK id \in Ids, default \in BOOLEAN, a \in {0, v}, s \in {0, v} :
        /\ rec[id] # NoProvider
        /\ Request(c, "read", Provider(id, v, Plain(a), Plain(s), default), Entered(v, a, s))
  BY DEF handleUpdate
<1>2. v \in Text /\ a \in Text /\ s \in Text /\ v # 0 /\ Types /\ restarts \in Nat
  BY <1>1, ProvidersAssumption DEF Request, IInv, Types, Text
<1> HIDE DEF v
<1> DEFINE p == Provider(id, v, Plain(a), Plain(s), default)
<1>3. /\ p \in Row /\ p.id = id /\ p.cfg = v /\ p.access.value = a /\ p.secret.value = s
      /\ Len(p.access.keys) = 0 /\ Len(p.secret.keys) = 0
  BY <1>2, PlainSealable DEF Provider, Row
<1>4. Opened(p)
  BY <1>2, <1>3 DEF Opened
<1>5. Entered(v, a, s) = Held(p) /\ Entered(v, a, s) \in [Fields -> Text]
  BY <1>2, <1>3, EnteredType DEF Held
<1> HIDE DEF p
<1> QED BY <1>1, <1>2, <1>3, <1>4, <1>5, RequestInv DEF p

LEMMA SetDefaultInv == ASSUME IInv, NEW c \in Callers, handleSetDefault(c) PROVE IInv'
<1> DEFINE p(id) == [rec[id] EXCEPT !.access = MustDecrypt(@), !.secret = Mask, !.default = TRUE]
<1>1. PICK id \in table : Request(c, "read", p(id), KeepAll)
  BY DEF handleSetDefault
<1>2. Types /\ id \in Ids /\ rec[id] # NoProvider /\ rec[id] \in Row /\ rec[id].id = id /\ Sealed(rec[id])
  BY DEF IInv, Types, Rows
<1> DEFINE a == MustDecrypt(rec[id].access)
<1>3. /\ a \in Sealable /\ a.value = rec[id].access.value /\ Len(a.keys) <= restarts
      /\ a.value = 0 \/ ~rotated => Len(a.keys) = 0
  BY <1>2, DecryptRemoves DEF Row, Sealed
<1> HIDE DEF a
<1>4. /\ p(id) \in Row /\ p(id).id = id /\ p(id).cfg = rec[id].cfg /\ p(id).access = a /\ p(id).secret = Mask
  <2>1. Mask \in Sealable
    BY ProvidersAssumption DEF Mask, Plain, Sealable, Text
  <2> QED BY <1>2, <1>3, <2>1 DEF Row, a
<1>5. Opened(p(id)) /\ p(id).secret.value = 0
  BY <1>3, <1>4 DEF Opened, Mask, Plain
<1> HIDE DEF p
<1> QED BY <1>1, <1>2, <1>3, <1>4, <1>5, KeepAllType, RequestInv

LEMMA DeleteInv == ASSUME IInv, NEW c \in Callers, handleDelete(c) PROVE IInv'
<1>1. PICK id \in table \ used :
        /\ requests < MaxRequests /\ requests' = requests + 1 /\ table' = table \ {id}
        /\ UNCHANGED <<rec, used, master, pc, arg, history, rotated, restarts>>
  BY DEF handleDelete
<1>2. Types'
  BY <1>1, ProvidersAssumption DEF IInv, Types, history
<1>3. Rows' /\ UpdatesKept' /\ FewDefaults'
  BY <1>1 DEF IInv, Rows, Sealed, UpdatesKept, FewDefaults, Defaults, history
<1>4. ASSUME NEW d \in Callers PROVE Caller(d)'
  BY <1>1, Bystander DEF Defaults, history
<1> QED BY <1>2, <1>3, <1>4 DEF IInv

\* ProviderService.Update has read the row: what is to be written is sealed,
\* and what the caller has left out is the row's.
LEMMA MergedIs ==
    ASSUME Types, NEW p \in Row, Opened(p), NEW e \in Row, Sealed(e)
    PROVE  LET q == Merged(p, e) IN
           /\ q \in Row /\ q.id = p.id /\ q.cfg = p.cfg /\ q.default = p.default
           /\ Sealed(q)
           /\ q.access.value = IF p.access.value = 0 THEN e.access.value ELSE p.access.value
           /\ q.secret.value = IF p.secret.value = 0 THEN e.secret.value ELSE p.secret.value
<1> DEFINE a == IF p.access = Mask THEN e.access ELSE MustEncrypt(p.access)
           s == IF p.secret = Mask THEN e.secret ELSE MustEncrypt(p.secret)
<1>0. restarts \in Nat /\ p.access \in Sealable /\ p.secret \in Sealable /\ e.access \in Sealable /\ e.secret \in Sealable
  BY ProvidersAssumption DEF Types, Row
<1>a. Len(p.access.keys) \in Nat
  BY <1>0, LenProperties DEF Sealable
<1>1. /\ s \in Sealable /\ Len(s.keys) = (IF s.value = 0 THEN 0 ELSE 1)
      /\ s.value = IF p.secret.value = 0 THEN e.secret.value ELSE p.secret.value
  <2>1. CASE p.secret.value = 0
    BY <1>0, <2>1, IsMask DEF Opened, Sealed
  <2>2. CASE p.secret.value # 0
    <3>1. s = MustEncrypt(p.secret) /\ p.secret # Mask /\ Len(p.secret.keys) = 0
      BY <1>0, <2>2, IsMask DEF Opened
    <3>2. s \in Sealable /\ s.value = p.secret.value /\ Len(s.keys) = Len(p.secret.keys) + 1
      BY <1>0, <3>1, EncryptAdds
    <3> HIDE DEF s
    <3> QED BY <2>2, <3>1, <3>2
  <2> QED BY <2>1, <2>2
<1>2. /\ a \in Sealable /\ Len(a.keys) \in 0 .. restarts + 1
      /\ Len(a.keys) = 0 <=> a.value = 0
      /\ Len(a.keys) = restarts + 1 => a.keys[restarts + 1] = master
      /\ ~rotated => Len(a.keys) = 0 \/ (Len(a.keys) = 1 /\ a.keys[1] = master)
      /\ a.value = IF p.access.value = 0 THEN e.access.value ELSE p.access.value
  <2>1. p.access = Mask <=> p.access.value = 0
    BY <1>0, IsMask DEF Opened
  <2>2. CASE p.access.value = 0
    BY <1>0, <2>1, <2>2 DEF Sealed
  <2>3. CASE p.access.value # 0
    <3>1. a = MustEncrypt(p.access)
      BY <2>1, <2>3
    <3>2. /\ a \in Sealable /\ a.value = p.access.value /\ Len(a.keys) = Len(p.access.keys) + 1
          /\ a.keys[Len(p.access.keys) + 1] = master
      BY <1>0, <2>1, <2>3, <3>1, EncryptAdds
    <3> HIDE DEF a
    <3> QED BY <1>0, <1>a, <2>3, <3>2 DEF Opened
  <2> QED BY <2>2, <2>3
<1> HIDE DEF a, s
<1>3. /\ Merged(p, e) \in Row /\ Merged(p, e).id = p.id /\ Merged(p, e).cfg = p.cfg
      /\ Merged(p, e).default = p.default
      /\ Merged(p, e).access = a /\ Merged(p, e).secret = s
  <2>1. Merged(p, e) = [p EXCEPT !.access = a, !.secret = s]
    BY DEF Merged, a, s, Row
  <2> QED BY <1>1, <1>2, <2>1 DEF Row
<1>4. Sealed(Merged(p, e))
  BY <1>1, <1>2, <1>3 DEF Sealed
<1> QED BY <1>1, <1>2, <1>3, <1>4

\* A request that returns, or fails, before it has written.
LEMMA ReturnInv ==
    ASSUME IInv, NEW c \in Callers, Return(c),
           UNCHANGED <<dbVars, master, alone, intent, lost, contested, rotated, requests, restarts>>,
           fresh' \in [Callers -> BOOLEAN], \A d \in Callers \ {c} : fresh'[d] = fresh[d]
    PROVE  IInv'
<1>1. /\ pc' = [pc EXCEPT ![c] = "idle"] /\ wish' = [wish EXCEPT ![c] = KeepAll]
      /\ arg' = [arg EXCEPT ![c] = NoProvider]
      /\ UNCHANGED <<table, used, rec>>
  BY DEF Return, Goto, dbVars
<1>2. Types'
  BY <1>1, KeepAllType DEF IInv, Types
<1>3. Rows' /\ UpdatesKept' /\ FewDefaults'
  BY <1>1 DEF IInv, Rows, Sealed, UpdatesKept, FewDefaults, Defaults
<1>4. Caller(c)'
  BY <1>1 DEF IInv, Types, Caller, Prepared, Asked, Filled, Cleared, Ready
<1>5. ASSUME NEW d \in Callers, d # c PROVE Caller(d)'
  <2>1. pc'[d] = pc[d] /\ arg'[d] = arg[d] /\ wish'[d] = wish[d] /\ fresh'[d] = fresh[d] /\ alone'[d] = alone[d]
    BY <1>1, <1>5
  <2> QED BY <1>1, <2>1, Bystander DEF Defaults
<1> QED BY <1>2, <1>3, <1>4, <1>5 DEF IInv

LEMMA ReadInv == ASSUME IInv, NEW c \in Callers, ReadExisting(c) PROVE IInv'
<1> DEFINE id == arg[c].id
<1>1. Types /\ Caller(c) /\ pc[c] = "read"
  BY DEF IInv, ReadExisting
<1>2. arg[c] \in Row /\ id \in Ids /\ Opened(arg[c]) /\ Asked(c)
  BY <1>1 DEF Caller, Prepared, Row
<1>3. CASE id \notin table
  BY <1>1, <1>3, ReturnInv DEF ReadExisting, dbVars, bounds, Types
<1>4. CASE id \in table
  <2> DEFINE q == Merged(arg[c], rec[id])
             l == IF arg[c].default THEN "clear" ELSE "write"
  <2>1. /\ pc' = [pc EXCEPT ![c] = l] /\ arg' = [arg EXCEPT ![c] = q]
        /\ fresh' = [fresh EXCEPT ![c] = @ \/ wish[c] # KeepAll]
        /\ UNCHANGED <<table, rec, used, wish, master, alone, intent, lost, contested, rotated, requests, restarts>>
    BY <1>4 DEF ReadExisting, Goto, dbVars, bounds
  <2>2. rec[id] # NoProvider /\ rec[id] \in Row /\ Sealed(rec[id])
    BY <1>2, <1>4 DEF IInv, Rows
  <2>3. /\ q \in Row /\ q.id = id /\ q.cfg = arg[c].cfg /\ q.default = arg[c].default /\ Sealed(q)
        /\ q.access.value = IF arg[c].access.value = 0 THEN rec[id].access.value ELSE arg[c].access.value
        /\ q.secret.value = IF arg[c].secret.value = 0 THEN rec[id].secret.value ELSE arg[c].secret.value
    BY <1>1, <1>2, <2>2, MergedIs
  <2> HIDE DEF q
  <2>4. Types'
    BY <1>1, <2>1 DEF Types
  <2>5. Rows' /\ UpdatesKept' /\ FewDefaults'
    BY <2>1 DEF IInv, Rows, Sealed, UpdatesKept, FewDefaults, Defaults
  <2>6. Caller(c)'
    <3>1. pc'[c] = l /\ arg'[c] = q /\ wish'[c] = wish[c] /\ (fresh'[c] <=> fresh[c] \/ wish[c] # KeepAll)
      BY <1>1, <2>1 DEF Types
    <3>2. Prepared(c)' /\ Asked(c)' /\ Cleared(c)'
      BY <2>1, <2>3, <3>1 DEF Prepared, Ready, Sealed, Asked, Cleared
    <3>3. CASE wish[c] = Held(arg[c])
      <4>1. wish[c]["cfg"] = arg[c].cfg /\ wish[c]["access"] = arg[c].access.value /\ wish[c]["secret"] = arg[c].secret.value
        BY <3>3, HeldFields
      <4>2. arg[c].cfg # 0
        BY <1>2 DEF Row
      <4>3. ASSUME NEW f \in Fields
            PROVE  \/ wish[c][f] # 0 /\ Held(q)[f] = wish[c][f]
                   \/ wish[c][f] = 0 /\ Held(q)[f] = Held(rec[id])[f]
        <5>1. CASE f = "cfg"
          BY <2>3, <4>1, <4>2, <5>1, HeldFields
        <5>2. CASE f = "access"
          BY <2>3, <4>1, <5>2, HeldFields
        <5>3. CASE f = "secret"
          BY <2>3, <4>1, <5>3, HeldFields
        <5> QED BY <5>1, <5>2, <5>3 DEF Fields
      <4> QED BY <2>1, <2>2, <2>3, <3>1, <3>2, <4>3 DEF Caller, Filled
    <3>4. CASE /\ wish[c] = KeepAll /\ arg[c].secret.value = 0
               /\ fresh[c] => arg[c].cfg = rec[id].cfg /\ arg[c].access.value = rec[id].access.value
      <4>1. \A f \in Fields : wish[c][f] = 0
        BY <3>4, KeepAllType
      <4>2. fresh[c] => \A f \in Fields : Held(q)[f] = Held(rec[id])[f]
        BY <2>3, <3>4, HeldFields DEF Fields
      <4> QED BY <2>1, <2>2, <2>3, <3>1, <3>2, <3>4, <4>1, <4>2 DEF Caller, Filled
    <3> QED BY <1>1, <1>2, <1>4, <3>3, <3>4 DEF Asked
  <2>7. ASSUME NEW d \in Callers, d # c PROVE Caller(d)'
    <3>1. pc'[d] = pc[d] /\ arg'[d] = arg[d] /\ wish'[d] = wish[d] /\ fresh'[d] = fresh[d] /\ alone'[d] = alone[d]
      BY <2>1, <2>7
    <3> QED BY <2>1, <3>1, Bystander DEF Defaults
  <2> QED BY <2>4, <2>5, <2>6, <2>7 DEF IInv
<1> QED BY <1>3, <1>4

LEMMA ClearInv == ASSUME IInv, NEW c \in Callers, ClearDefault(c) PROVE IInv'
<1>1. /\ pc[c] = "clear" /\ pc' = [pc EXCEPT ![c] = "write"] /\ alone' = [alone EXCEPT ![c] = TRUE]
      /\ rec' = [id \in Ids |-> IF id = arg[c].id THEN rec[id] ELSE [rec[id] EXCEPT !.default = FALSE]]
      /\ UNCHANGED <<table, used, master, arg, wish, fresh, intent, lost, contested, rotated, requests, restarts>>
  BY DEF ClearDefault, Goto, bounds
<1>2. Types'
  BY <1>1 DEF IInv, Types
<1>3. ASSUME NEW id \in Ids
      PROVE  /\ rec[id] = NoProvider => rec'[id] = NoProvider
             /\ rec[id] # NoProvider =>
                  /\ rec'[id] # NoProvider /\ rec'[id] \in Row /\ rec'[id].id = id /\ Sealed(rec'[id])
                  /\ Held(rec'[id]) = Held(rec[id])
                  /\ rec'[id].default => id = arg[c].id /\ rec[id].default
  <2>1. (rec'[id] = rec[id] /\ id = arg[c].id) \/ rec'[id] = [rec[id] EXCEPT !.default = FALSE]
    BY <1>1
  <2>2. CASE rec[id] = NoProvider
    <3>1. [NoProvider EXCEPT !.default = FALSE] = NoProvider
      <4>1. NoProvider = [f \in DOMAIN NoProvider |-> NoProvider[f]] /\ NoProvider.default = FALSE
        BY DEF NoProvider, Provider
      <4> QED BY <4>1
    <3> QED BY <2>1, <2>2, <3>1
  <2>3. CASE rec[id] # NoProvider
    <3>1. rec[id] \in Row /\ rec[id].id = id /\ Sealed(rec[id])
      BY <2>3 DEF IInv, Rows
    <3>2. CASE rec'[id] = rec[id] /\ id = arg[c].id
      BY <2>3, <3>1, <3>2
    <3>3. CASE rec'[id] = [rec[id] EXCEPT !.default = FALSE]
      <4>1. /\ rec'[id] \in Row /\ rec'[id].id = rec[id].id /\ Held(rec'[id]) = Held(rec[id])
            /\ rec'[id].access = rec[id].access /\ rec'[id].secret = rec[id].secret /\ rec'[id].default = FALSE
        BY <3>1, <3>3, NoLongerDefault
      <4>2. Sealed(rec'[id])
        BY <3>1, <4>1 DEF Sealed
      <4> QED BY <2>3, <3>1, <4>1, <4>2, RowIsProvider
    <3> QED BY <2>1, <3>2, <3>3
  <2> QED BY <2>2, <2>3
<1>4. Rows'
  BY <1>1, <1>3 DEF IInv, Types, Rows, Sealed
<1>5. \A id \in table : id \in Ids /\ rec[id] # NoProvider
  BY DEF IInv, Types, Rows
<1>6. UpdatesKept'
  BY <1>1, <1>3, <1>5 DEF IInv, UpdatesKept
<1>7. Defaults' \subseteq Defaults /\ \A id \in Defaults' : id = arg[c].id
  BY <1>1, <1>3, <1>5 DEF Defaults
<1>8. FewDefaults'
  BY <1>7 DEF FewDefaults
<1>9. Caller(c)'
  <2>1. pc'[c] = "write" /\ Caller(c) /\ Ready(c) /\ arg[c].id \in Ids
    BY <1>1 DEF IInv, Types, Ready, Caller, Prepared, Row
  <2>2. Prepared(c)' /\ Asked(c)' /\ Cleared(c)'
    BY <1>1, <1>7, <2>1 DEF Caller, Prepared, Asked, Cleared, Ready, Sealed
  <2>3. \A f \in Fields : Filled(c, f)'
    BY <1>1, <1>3, <2>1 DEF Caller, Filled
  <2> QED BY <2>2, <2>3 DEF Caller
<1>10. ASSUME NEW d \in Callers, d # c PROVE Caller(d)'
  <2>1. pc'[d] = pc[d] /\ alone'[d] = alone[d]
    BY <1>1, <1>10
  <2> QED BY <1>1, <1>3, <1>5, <1>7, <2>1, Bystander
<1> QED BY <1>2, <1>4, <1>6, <1>8, <1>9, <1>10 DEF IInv

\* What a request writes is what the row should be by now, if it is not the
\* copy of a row that another request has changed since.
LEMMA WrittenAsWished ==
    ASSUME IInv, NEW c \in Callers, pc[c] = "write", Written(c, arg[c].id),
           arg[c].id \in table \/ rec[arg[c].id] = NoProvider,
           arg[c].id \notin lost'
    PROVE  Held(arg[c]) = Granted(intent[arg[c].id], wish[c])
<1> DEFINE id == arg[c].id
           w == wish[c]
           g == Granted(intent[id], w)
<1>1. /\ Types /\ id \in Ids /\ arg[c] \in Row
      /\ \A f \in Fields : \/ w[f] # 0 /\ Held(arg[c])[f] = w[f]
                           \/ /\ w[f] = 0
                              /\ rec[id] = NoProvider => Held(arg[c])[f] = 0
                              /\ fresh[c] /\ id \in table => Held(arg[c])[f] = Held(rec[id])[f]
  BY DEF IInv, Caller, Prepared, Filled, Ready, Row
<1>2. w \in [Fields -> Text] /\ intent[id] \in [Fields -> Text]
  BY <1>1 DEF Types
<1>3. g \in [Fields -> Text] /\ \A f \in Fields : g[f] = IF w[f] = 0 THEN intent[id][f] ELSE w[f]
  BY <1>2 DEF Granted
<1>4. \A f \in Fields : Held(arg[c])[f] = g[f]
  <2>1. CASE 0 \notin {w[f] : f \in DOMAIN w}
    <3>1. \A f \in Fields : w[f] # 0
      BY <1>2, <2>1
    <3> QED BY <1>1, <1>3, <3>1
  <2>2. CASE 0 \in {w[f] : f \in DOMAIN w}
    <3>1. fresh[c] /\ id \notin lost
      BY <2>2 DEF Written
    <3>2. CASE rec[id] = NoProvider
      <4>1. intent[id] = Held(NoProvider)
        BY <1>1, <3>2 DEF IInv, Rows
      <4>2. \A f \in Fields : intent[id][f] = 0
        BY <4>1, HeldFields DEF Fields, NoProvider, Provider, Mask, Plain
      <4> HIDE DEF id, w, g
      <4> QED BY <1>1, <1>3, <3>2, <4>2
    <3>3. CASE id \in table
      <4>1. Held(rec[id]) = intent[id]
        BY <3>1, <3>3 DEF IInv, UpdatesKept
      <4> HIDE DEF id, w, g
      <4> QED BY <1>1, <1>3, <3>1, <3>3, <4>1
    <3> QED BY <3>2, <3>3
  <2> QED BY <2>1, <2>2
<1> QED BY <1>1, <1>3, <1>4, SameHeld

LEMMA WriteInv == ASSUME IInv, NEW c \in Callers, Write(c) PROVE IInv'
<1> DEFINE id == arg[c].id
<1>1. /\ pc[c] = "write" /\ Return(c) /\ UNCHANGED <<used, master, rotated, bounds>>
      /\ Types /\ Caller(c) /\ Ready(c)
  BY DEF Write, IInv, Ready
<1>2. id \in Ids /\ arg[c] \in Row /\ Sealed(arg[c])
  BY <1>1 DEF Caller, Prepared, Row
<1>3. CASE ~(id \in table \/ rec[id] = NoProvider)
  <2>1. UNCHANGED <<table, rec, fresh, alone, intent, lost, contested>>
    BY <1>3 DEF Write
  <2> QED BY <1>1, <2>1, ReturnInv DEF dbVars, bounds, Types
<1>4. CASE id \in table \/ rec[id] = NoProvider
  <2>1. Written(c, id)
    BY <1>4 DEF Write
  <2>2. /\ pc' = [pc EXCEPT ![c] = "idle"] /\ wish' = [wish EXCEPT ![c] = KeepAll]
        /\ arg' = [arg EXCEPT ![c] = NoProvider]
        /\ UNCHANGED <<used, master, rotated, requests, restarts>>
    BY <1>1 DEF Return, Goto, bounds
  <2>3. /\ rec' = [rec EXCEPT ![id] = arg[c]] /\ table' = table \cup {id}
        /\ rec'[id] = arg[c] /\ \A i \in Ids \ {id} : rec'[i] = rec[i]
        /\ intent' = [intent EXCEPT ![id] = Granted(intent[id], wish[c])]
        /\ fresh' = [d \in Callers |-> fresh[d] /\ (d = c \/ arg[d].id # id)]
    BY <1>1, <1>2, <2>1 DEF Written, Types
  <2>4. /\ arg[c].default => contested' = ~alone[c] /\ alone' = [d \in Callers |-> d = c]
        /\ ~arg[c].default => UNCHANGED <<contested, alone>>
        /\ arg[c].default \in BOOLEAN
    BY <1>2, <2>1 DEF Written, Row
  <2>5. Types'
    <3>1. Granted(intent[id], wish[c]) \in [Fields -> Text]
      BY <1>1, <1>2 DEF Types, Granted
    <3>2. contested' \in BOOLEAN /\ alone' \in [Callers -> BOOLEAN] /\ fresh' \in [Callers -> BOOLEAN]
      <4>1. fresh' \in [Callers -> BOOLEAN]
        BY <2>3
      <4>2. CASE arg[c].default
        BY <2>4, <4>1, <4>2
      <4>3. CASE ~arg[c].default
        BY <1>1, <2>4, <4>1, <4>3 DEF Types
      <4> QED BY <4>2, <4>3
    <3>3. wish' \in [Callers -> [Fields -> Text]] /\ intent' \in [Ids -> [Fields -> Text]]
      BY <1>1, <2>2, <2>3, <3>1, KeepAllType DEF Types
    <3> QED BY <1>1, <1>2, <2>2, <2>3, <3>2, <3>3 DEF Types
  <2>6. Rows'
    <3>1. rec'[id] \in Row /\ rec'[id].id = id /\ rec'[id] # NoProvider /\ Sealed(rec'[id])
      BY <1>2, <2>3, RowIsProvider
    <3>2. \A i \in Ids \ {id} : intent'[i] = intent[i]
      BY <1>1, <2>3 DEF Types
    <3> QED BY <2>2, <2>3, <3>1, <3>2 DEF IInv, Rows, Sealed
  <2>7. UpdatesKept'
    <3> SUFFICES ASSUME NEW i \in table' \ lost' PROVE Held(rec'[i]) = intent'[i]
      BY DEF UpdatesKept
    <3>1. CASE i = id
      <4>1. Held(arg[c]) = Granted(intent[id], wish[c])
        BY <1>1, <1>4, <2>1, <3>1, WrittenAsWished
      <4> QED BY <1>1, <1>2, <2>3, <3>1, <4>1 DEF Types
    <3>2. CASE i # id
      <4>1. i \in table \ lost /\ i \in Ids
        BY <1>1, <2>1, <2>3, <3>2 DEF Written, Types
      <4> QED BY <1>1, <2>3, <3>2, <4>1 DEF IInv, Types, UpdatesKept
    <3> QED BY <3>1, <3>2
  <2>8. Defaults' \subseteq Defaults \cup {id} /\ (~arg[c].default => Defaults' \subseteq Defaults)
    BY <1>1, <2>3 DEF Defaults, Types
  <2>9. FewDefaults'
    <3>1. CASE arg[c].default /\ ~contested'
      <4>1. \A i \in Defaults : i = id
        BY <1>1, <2>4, <3>1 DEF Caller, Cleared
      <4> QED BY <2>8, <4>1 DEF FewDefaults
    <3>2. CASE ~arg[c].default
      BY <2>4, <2>8, <3>2 DEF IInv, FewDefaults
    <3> QED BY <3>1, <3>2 DEF FewDefaults
  <2>10. Caller(c)'
    BY <1>1, <2>2 DEF Types, Caller, Prepared, Asked, Filled, Cleared, Ready
  <2>11. ASSUME NEW d \in Callers, d # c PROVE Caller(d)'
    <3>1. pc'[d] = pc[d] /\ arg'[d] = arg[d] /\ wish'[d] = wish[d]
      BY <2>2, <2>11
    <3>2. fresh'[d] => fresh[d] /\ arg[d].id # id
      BY <2>3, <2>11
    <3>3. \A i \in Ids : rec[i] # NoProvider => rec'[i] # NoProvider
      BY <1>2, <2>3, RowIsProvider
    <3>4. alone'[d] => alone[d] /\ Defaults' \subseteq Defaults
      BY <2>4, <2>8, <2>11
    <3>5. fresh'[d] /\ arg[d].id \in table' =>
            arg[d].id \in table /\ Held(rec'[arg[d].id]) = Held(rec[arg[d].id])
      BY <1>1, <2>3, <3>2 DEF Types
    <3> QED BY <2>2, <3>1, <3>2, <3>3, <3>4, <3>5, Bystander
  <2> QED BY <2>5, <2>6, <2>7, <2>9, <2>10, <2>11 DEF IInv
<1> QED BY <1>3, <1>4

LEMMA FailInv == ASSUME IInv, NEW c \in Callers, StatementFails(c) PROVE IInv'
<1>1. UNCHANGED <<dbVars, master, fresh, alone, intent, lost, contested, rotated, requests, restarts>> /\ Return(c)
  BY DEF StatementFails
<1>2. fresh' \in [Callers -> BOOLEAN] /\ \A d \in Callers \ {c} : fresh'[d] = fresh[d]
  BY <1>1 DEF IInv, Types
<1> QED BY <1>1, <1>2, ReturnInv

\* A schedule or a backup that names a provider changes nothing of it.
LEMMA UseInv ==
    ASSUME IInv, used' \subseteq table',
           UNCHANGED <<table, rec, master, pc, arg, history, rotated, requests, restarts>>
    PROVE  IInv'
<1>1. Types'
  BY DEF IInv, Types, history
<1>2. Rows' /\ UpdatesKept' /\ FewDefaults'
  BY DEF IInv, Rows, Sealed, UpdatesKept, FewDefaults, Defaults, history
<1>3. ASSUME NEW d \in Callers PROVE Caller(d)'
  BY Bystander DEF Defaults, history
<1> QED BY <1>1, <1>2, <1>3 DEF IInv

LEMMA RestartInv == ASSUME IInv, NEW k \in Keys, Restart(k) PROVE IInv'
<1>1. /\ restarts < MaxRestarts /\ restarts' = restarts + 1 /\ master' = k
      /\ rotated' = (rotated \/ k # master)
      /\ pc' = [c \in Callers |-> "idle"]
      /\ arg' = [c \in Callers |-> NoProvider] /\ wish' = [c \in Callers |-> KeepAll]
      /\ UNCHANGED <<table, used, rec, fresh, alone, intent, lost, contested, requests>>
  BY DEF Restart, dbVars
<1>2. restarts \in Nat /\ restarts' \in 0 .. MaxRestarts
  BY <1>1, ProvidersAssumption DEF IInv, Types
<1>3. Types'
  BY <1>1, <1>2, KeepAllType DEF IInv, Types
<1>4. Rows'
  <2>1. ASSUME NEW p, Sealed(p)
        PROVE  /\ Len(p.access.keys) \in 0 .. restarts' + 1
               /\ Len(p.access.keys) # restarts' + 1
    BY <1>1, <1>2, <2>1 DEF Sealed
  <2>2. ASSUME NEW p, Sealed(p), ~rotated' 
        PROVE  Len(p.access.keys) = 0 \/ (Len(p.access.keys) = 1 /\ p.access.keys[1] = master')
    BY <1>1, <2>2 DEF Sealed
  <2>3. \A id \in Ids : Sealed(rec[id]) => Sealed(rec[id])'
    BY <1>1, <2>1, <2>2 DEF Sealed
  <2> QED BY <1>1, <2>3 DEF IInv, Rows
<1>5. UpdatesKept' /\ FewDefaults'
  BY <1>1 DEF IInv, UpdatesKept, FewDefaults, Defaults
<1>6. \A c \in Callers : Caller(c)'
  BY <1>1 DEF Caller, Prepared, Asked, Filled, Cleared, Ready
<1> QED BY <1>3, <1>4, <1>5, <1>6 DEF IInv

LEMMA NextInv == IInv /\ [Next]_vars => IInv'
<1> SUFFICES ASSUME IInv, [Next]_vars PROVE IInv'
  OBVIOUS
<1>1. ASSUME NEW c \in Callers,
             \/ handleCreate(c) \/ handleUpdate(c) \/ handleSetDefault(c) \/ handleDelete(c)
             \/ ReadExisting(c) \/ ClearDefault(c) \/ Write(c) \/ StatementFails(c)
      PROVE  IInv'
  BY <1>1, CreateInv, UpdateInv, SetDefaultInv, DeleteInv, ReadInv, ClearInv, WriteInv, FailInv
<1>2. ASSUME NEW id \in Ids, Use(id) PROVE IInv'
  <2>1. used' \subseteq table' /\ UNCHANGED <<table, rec, master, pc, arg, history, rotated, requests, restarts>>
    BY <1>2 DEF Use, IInv, Types, bounds
  <2> QED BY <2>1, UseInv
<1>3. ASSUME NEW k \in Keys, Restart(k) PROVE IInv'
  BY <1>3, RestartInv
<1>4. CASE UNCHANGED vars
  <2>1. used' \subseteq table' /\ UNCHANGED <<table, rec, master, pc, arg, history, rotated, requests, restarts>>
    BY <1>4 DEF vars, dbVars, bounds, IInv, Types
  <2> QED BY <2>1, UseInv
<1> QED BY <1>1, <1>2, <1>3, <1>4 DEF Next

-----------------------------------------------------------------------------
\* IInv holds in every reachable state, however the statements of requests
\* (handleCreate, handleUpdate, handleSetDefault) interleave.
THEOREM Invariance == Spec => []IInv
BY InitInv, NextInv, PTL DEF Spec

\* The variables keep their types; credentials are sealed at most once more
\* for each restart.
THEOREM TypeCorrect == Spec => []TypeOK
<1>1. IInv => TypeOK
  <2> SUFFICES ASSUME IInv PROVE TypeOK
    OBVIOUS
  <2>0. Types /\ restarts \in 0 .. MaxRestarts /\ MaxRestarts \in Nat
    BY ProvidersAssumption DEF IInv, Types
  <2>1. ASSUME NEW c \in Sealable, Len(c.keys) <= restarts + 1 PROVE c \in Credential
    <3>1. c.keys \in [1 .. Len(c.keys) -> Keys] /\ Len(c.keys) \in 0 .. 2 + MaxRestarts
      BY <2>0, <2>1, LenProperties DEF Sealable
    <3>2. c.keys \in UNION {[1 .. n -> Keys] : n \in 0 .. 2 + MaxRestarts}
      BY <3>1
    <3> QED BY <3>2 DEF Credential, Sealable
  <2>2. \A p \in Row : Sealed(p) => Stored(p.access) /\ Stored(p.secret)
    <3> SUFFICES ASSUME NEW p \in Row, Sealed(p) PROVE Stored(p.access) /\ Stored(p.secret)
      OBVIOUS
    <3>1. /\ p.access \in Sealable /\ p.secret \in Sealable
          /\ p.access.keys \in Seq(Keys) /\ p.secret.keys \in Seq(Keys)
      BY DEF Row, Sealable
    <3>2. /\ Len(p.access.keys) <= restarts + 1 /\ Len(p.secret.keys) <= restarts + 1
          /\ Len(p.access.keys) = 0 <=> p.access.value = 0
          /\ Len(p.secret.keys) = 0 <=> p.secret.value = 0
      BY <2>0 DEF Sealed
    <3>3. /\ p.access.keys = <<>> <=> p.access.value = 0
          /\ p.secret.keys = <<>> <=> p.secret.value = 0
      BY <3>1, <3>2
    <3>4. p.access \in Credential /\ p.secret \in Credential
      BY <2>1, <3>1, <3>2
    <3> QED BY <3>3, <3>4 DEF Stored
  <2>3. \A id \in table : rec[id].cfg \in Text /\ Stored(rec[id].access) /\ Stored(rec[id].secret)
    BY <2>0, <2>2 DEF IInv, Types, Rows, Row
  <2>4. Mask \in Credential
    <3>1. Mask \in Sealable /\ Len(Mask.keys) = 0
      BY <2>0, ProvidersAssumption DEF Mask, Plain, Sealable, Text
    <3> QED BY <2>0, <2>1, <3>1
  <2>5. ASSUME NEW c \in Callers PROVE arg[c].access \in Credential /\ arg[c].secret \in Credential
    <3>1. Prepared(c)
      BY DEF IInv, Caller
    <3>2. CASE pc[c] = "idle"
      BY <2>4, <3>1, <3>2 DEF Prepared, NoProvider, Provider
    <3>3. CASE pc[c] = "read"
      BY <2>0, <2>1, <3>1, <3>3 DEF Prepared, Opened, Row
    <3>4. CASE Ready(c)
      BY <2>2, <3>1, <3>4 DEF Prepared, Ready, Stored
    <3> QED BY <2>0, <3>2, <3>3, <3>4 DEF Types, Ready
  <2> QED BY <2>0, <2>3, <2>5 DEF Types, TypeOK, Fields
<1> QED BY <1>1, Invariance, PTL

\* What requests set is kept by those that follow (ProviderService.Update),
\* but for rows written from a copy that had been overtaken.
THEOREM NothingForgotten == Spec => []UpdatesKept
<1>1. IInv => UpdatesKept
  BY DEF IInv
<1> QED BY <1>1, Invariance, PTL

\* Credentials are sealed once (MustEncrypt), unless the master key changed.
THEOREM SealedOnce == Spec => []CredentialsIntact
<1>1. IInv => CredentialsIntact
  <2> SUFFICES ASSUME IInv, NEW id \in table
               PROVE  /\ Len(rec[id].secret.keys) = IF rec[id].secret.value = 0 THEN 0 ELSE 1
                      /\ Len(rec[id].access.keys) = 0 <=> rec[id].access.value = 0
                      /\ Len(rec[id].access.keys) > 1 => rotated
    BY DEF CredentialsIntact
  <2>1. Sealed(rec[id])
    BY DEF IInv, Types, Rows
  <2>2. Len(rec[id].secret.keys) = IF rec[id].secret.value = 0 THEN 0 ELSE 1
    BY <2>1 DEF Sealed
  <2>3. Len(rec[id].access.keys) = 0 <=> rec[id].access.value = 0
    BY <2>1 DEF Sealed
  <2>4. Len(rec[id].access.keys) > 1 => rotated
    <3>1. ~rotated => Len(rec[id].access.keys) \in {0, 1}
      BY <2>1 DEF Sealed
    <3>2. \A n : n \in {0, 1} => ~(n > 1)
      OBVIOUS
    <3>3. CASE rotated
      BY <3>3, Zenon
    <3>4. CASE ~rotated
      BY <3>1, <3>2, <3>4, Zenon
    <3> QED BY <3>3, <3>4, Zenon
  <2> QED BY <2>2, <2>3, <2>4
<1> QED BY <1>1, Invariance, PTL

\* One provider is the default (ClearDefault), unless two requests for it met.
THEOREM SingleDefault == Spec => []OneDefault
<1>1. IInv => OneDefault
  <2> SUFFICES ASSUME IInv, ~contested PROVE ~(Cardinality(Defaults) > 1)
    BY DEF OneDefault
  <2>1. \A p, q \in Defaults : p = q
    BY DEF IInv, FewDefaults
  <2>2. CASE Defaults = {}
    BY <2>2, FS_EmptySet
  <2>3. CASE Defaults # {}
    <3>1. PICK p : Defaults = {p}
      BY <2>1, <2>3
    <3> QED BY <3>1, FS_Singleton
  <2> QED BY <2>2, <2>3
<1> QED BY <1>1, Invariance, PTL
=============================================================================

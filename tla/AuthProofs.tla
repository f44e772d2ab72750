------------------------------- MODULE AuthProofs -------------------------------
(***************************************************************************)
(* The directory of accounts, for any names, clients and settings, and     *)
(* whether or not statements fail.                                         *)
(*                                                                         *)
(* Every method of Manager_DB is made of three statements (Insert, Delete, *)
(* Set).  What the properties need of a database is kept by each of them,  *)
(* under a condition of its own; the methods, the handlers and the steps   *)
(* of the clients are then gone through one by one.                        *)
(***************************************************************************)
EXTENDS AuthPages, FiniteSetTheorems, TLAPS

Texts == {"old", "new"}
Names == Users \cup {""}

\* What the rows of each table are made of.
RowsOf == [accounts |-> [user : Users, superuser : BOOLEAN, enabled : BOOLEAN, confirmed : BOOLEAN,
                         expired : BOOLEAN, idle : BOOLEAN, text : Texts],
           applications |-> [app : Apps, user : Names, text : Texts],
           attribs |-> [app : Apps, attrib : Rights, text : Texts],
           applicationmanagers |-> [user : Users, app : Apps],
           applicationusers |-> [user : Users, app : Apps],
           secretsindexs |-> [index : Indexes, required : BOOLEAN],
           accountactivationtokens |-> [user : Users],
           accountsecrets |-> [index : Indexes, user : Users, bad : Nat, expired : BOOLEAN],
           groups |-> [group : Groups, text : Texts],
           groupsaccounts |-> [group : Groups, user : Users],
           attribsgroups |-> [app : Apps, attrib : Rights, group : Groups],
           attribsaccounts |-> [app : Apps, attrib : Rights, user : Users]]

IsDatabase(d) == d = [t \in Tables |-> d[t]] /\ \A t \in Tables : d[t] \subseteq RowsOf[t]

\* Every row has those it refers to.
Integral(d) == \A t \in Tables : \A r \in d[t] : Supported(d, t, r)

Ruler(r) == r.superuser /\ r.enabled
HasRuler(d) == \E r \in d.accounts : Ruler(r)

SecretsAreUnique(d) ==
    \A r, s \in d.accountsecrets : r.user = s.user /\ r.index = s.index => r = s

Sound(d) ==
    /\ IsDatabase(d) /\ HasRuler(d) /\ SecretsAreUnique(d)
    /\ ForeignKeys => Integral(d)

Changes == {{}} \cup {{i} : i \in Indexes}
Reasons == Authenticated \cup {"BAD_PASSWORD", "BAD_ACCOUNT", "INDEX_NOTFOUND", "UNCONFIRMED_ACCOUNT",
                              "DISABLED_ACCOUNT", "EXPIRED_ACCOUNT", "INTERNAL_ERROR"}
SessionTypes ==
    /\ session = [c \in Clients |-> session[c]]
    /\ \A c \in Clients : DOMAIN session[c] = DOMAIN NoSession /\ session[c].user \in Names

Attempts == [do : {"accept", "count", "reset", "master", "change"}, user : Users, index : Indexes,
             reason : Reasons, change : Changes, needed : SUBSET Indexes, bad : Nat, tries : TriesSettings]
Tasks == {Idle} \cup [do : {"run"}] \cup [do : {"add", "flags"}, user : Users, flags : AccountFlags] \cup Attempts

\* Clients that will add one to the counter of a secret: they read it when it was below the limit.
Adds(t) == t.do = "count" /\ t.bad + 1 < t.tries
Adders(ts, r) == {c \in Clients : Adds(ts[c]) /\ ts[c].user = r.user /\ ts[c].index = r.index}

\* Whoever adds leaves these clients, so the sum grows only where a counter below the limit was read.
SumsBounded(d, ts) ==
    \A r \in d.accountsecrets :
        \E m \in TriesSettings : r.bad + Cardinality(Adders(ts, r)) <= m - 2 + Cardinality(Clients)

IInv ==
    /\ Sound(db) /\ maxTries \in TriesSettings
    /\ SessionTypes
    /\ task \in [Clients -> Tasks]
    /\ ForeignKeys => SumsBounded(db, task)

(***************************************************************************)
(* The schema.                                                             *)
(***************************************************************************)
LEMMA TablesAre ==
    Tables = {"accounts", "applications", "attribs", "applicationmanagers", "applicationusers", "secretsindexs",
              "accountactivationtokens", "accountsecrets", "groups", "groupsaccounts", "attribsgroups",
              "attribsaccounts"}
BY DEF Tables, Key

LEMMA ParentsAre ==
    /\ Parents["accounts"] = {} /\ Parents["secretsindexs"] = {} /\ Parents["groups"] = {}
    /\ Parents["applications"] = {"accounts"} /\ Parents["accountactivationtokens"] = {"accounts"}
    /\ Parents["accountsecrets"] = {"secretsindexs", "accounts"}
    /\ Parents["groupsaccounts"] = {"groups", "accounts"}
    /\ Parents["attribs"] = {"applications"}
    /\ Parents["applicationmanagers"] = {"accounts", "applications"}
    /\ Parents["applicationusers"] = {"accounts", "applications"}
    /\ Parents["attribsgroups"] = {"attribs", "groups"}
    /\ Parents["attribsaccounts"] = {"attribs", "accounts"}
BY DEF Parents

LEMMA ParentsAreTables == \A t \in Tables : Parents[t] \subseteq Tables
BY TablesAre, ParentsAre

\* A row depends on the tables its own refers to.
LEMMA SupportDepends ==
    ASSUME NEW d, NEW e, NEW t, NEW r, \A p \in Parents[t] : d[p] = e[p]
    PROVE  Supported(d, t, r) <=> Supported(e, t, r)
BY DEF Supported

Settled(d, t) == \A r \in d[t] : Supported(d, t, r)

LEMMA PruneSettles ==
    ASSUME NEW d, NEW t \in Tables, \A p \in Parents[t] : Settled(d, p)
    PROVE  Settled(Prune(d), t)
<1>1. \A p \in Parents[t] : Prune(d)[p] = d[p]
  BY ParentsAreTables DEF Prune, Settled
<1>2. \A r \in Prune(d)[t] : Supported(d, t, r)
  BY DEF Prune
<1>3. QED
  BY <1>1, <1>2, SupportDepends DEF Settled

\* ON DELETE CASCADE: three rounds leave no row without those it refers to.
LEMMA CascadeSettles == ASSUME NEW d, ForeignKeys PROVE Integral(Cascade(d))
<1> DEFINE d1 == Prune(d)
           d2 == Prune(d1)
           d3 == Prune(d2)
<1>1. \A t \in {"accounts", "secretsindexs", "groups"} : \A e : Settled(e, t)
  BY ParentsAre DEF Settled, Supported
<1>2. \A t \in {"applications", "accountactivationtokens", "accountsecrets", "groupsaccounts"} :
         \A e : Settled(Prune(e), t)
  <2>1. \A t \in {"applications", "accountactivationtokens", "accountsecrets", "groupsaccounts"} :
           t \in Tables /\ Parents[t] \subseteq {"accounts", "secretsindexs", "groups"}
    BY TablesAre, ParentsAre
  <2>2. QED
    BY <1>1, <2>1, PruneSettles
<1>3. \A t \in {"attribs", "applicationmanagers", "applicationusers"} : \A e : Settled(Prune(Prune(e)), t)
  <2>1. \A t \in {"attribs", "applicationmanagers", "applicationusers"} :
           t \in Tables /\ Parents[t] \subseteq {"accounts", "applications"}
    BY TablesAre, ParentsAre
  <2>2. QED
    BY <1>1, <1>2, <2>1, PruneSettles
<1>4. \A t \in {"attribsgroups", "attribsaccounts"} : \A e : Settled(Prune(Prune(Prune(e))), t)
  <2>1. \A t \in {"attribsgroups", "attribsaccounts"} :
           t \in Tables /\ Parents[t] \subseteq {"accounts", "groups", "attribs"}
    BY TablesAre, ParentsAre
  <2>2. QED
    BY <1>1, <1>3, <2>1, PruneSettles
<1>5. \A t \in Tables : Settled(d3, t)
  BY <1>1, <1>2, <1>3, <1>4, TablesAre
<1>6. Cascade(d) = d3
  BY DEF Cascade
<1>7. QED
  BY <1>5, <1>6 DEF Integral, Settled

LEMMA KeysAre ==
    /\ Key["accounts"] = {"user"} /\ Key["applications"] = {"app"} /\ Key["attribs"] = {"app", "attrib"}
    /\ Key["applicationmanagers"] = {"user", "app"} /\ Key["applicationusers"] = {"user", "app"}
    /\ Key["secretsindexs"] = {"index"} /\ Key["accountactivationtokens"] = {"user"}
    /\ Key["accountsecrets"] = {"index", "user"} /\ Key["groups"] = {"group"}
    /\ Key["groupsaccounts"] = {"group", "user"} /\ Key["attribsgroups"] = {"app", "attrib", "group"}
    /\ Key["attribsaccounts"] = {"app", "attrib", "user"}
BY DEF Key

LEMMA RowsAre ==
    /\ RowsOf["accounts"] = [user : Users, superuser : BOOLEAN, enabled : BOOLEAN, confirmed : BOOLEAN,
                             expired : BOOLEAN, idle : BOOLEAN, text : Texts]
    /\ RowsOf["applications"] = [app : Apps, user : Names, text : Texts]
    /\ RowsOf["attribs"] = [app : Apps, attrib : Rights, text : Texts]
    /\ RowsOf["applicationmanagers"] = [user : Users, app : Apps]
    /\ RowsOf["applicationusers"] = [user : Users, app : Apps]
    /\ RowsOf["secretsindexs"] = [index : Indexes, required : BOOLEAN]
    /\ RowsOf["accountactivationtokens"] = [user : Users]
    /\ RowsOf["accountsecrets"] = [index : Indexes, user : Users, bad : Nat, expired : BOOLEAN]
    /\ RowsOf["groups"] = [group : Groups, text : Texts]
    /\ RowsOf["groupsaccounts"] = [group : Groups, user : Users]
    /\ RowsOf["attribsgroups"] = [app : Apps, attrib : Rights, group : Groups]
    /\ RowsOf["attribsaccounts"] = [app : Apps, attrib : Rights, user : Users]
BY DEF RowsOf

(***************************************************************************)
(* What statements keep.                                                   *)
(***************************************************************************)

\* Counters of secrets start at 0; a statement that adds to one has its own lemma.
SecretsFrom(d, e) ==
    \A s \in e.accountsecrets :
        \/ s.bad = 0
        \/ \E r \in d.accountsecrets : r.user = s.user /\ r.index = s.index /\ r.bad = s.bad

Fine(d, e) == Sound(e) /\ SecretsFrom(d, e)

LEMMA Stays == ASSUME NEW d, Sound(d) PROVE Fine(d, d)
BY DEF Fine, SecretsFrom

LEMMA FineFollows == ASSUME NEW d, NEW e, NEW f, Fine(d, e), Fine(e, f) PROVE Fine(d, f)
<1>1. ASSUME NEW s \in f.accountsecrets, s.bad # 0
      PROVE  \E r \in d.accountsecrets : r.user = s.user /\ r.index = s.index /\ r.bad = s.bad
  <2>1. PICK q \in e.accountsecrets : q.user = s.user /\ q.index = s.index /\ q.bad = s.bad
    BY <1>1 DEF Fine, SecretsFrom
  <2>2. PICK r \in d.accountsecrets : r.user = q.user /\ r.index = q.index /\ r.bad = q.bad
    BY <1>1, <2>1 DEF Fine, SecretsFrom
  <2>3. QED
    BY <2>1, <2>2
<1>2. QED
  BY <1>1 DEF Fine, SecretsFrom

\* Rows may come that are supported, and rows may change but in their keys.
LEMMA StaysIntegral ==
    ASSUME NEW d, NEW e,
           \A t \in Tables : \A r \in d[t] : \E q \in e[t] : Same(q, r, Key[t]),
           \A t \in Tables : \A q \in e[t] : Supported(d, t, q)
    PROVE  Integral(e)
<1> SUFFICES ASSUME NEW t \in Tables, NEW q \in e[t], NEW p \in Parents[t]
             PROVE  \E s \in e[p] : Same(s, q, Key[p])
  BY DEF Integral, Supported
<1>1. PICK r \in d[p] : Same(r, q, Key[p])
  BY DEF Supported
<1>2. p \in Tables
  BY ParentsAreTables
<1>3. PICK s \in e[p] : Same(s, r, Key[p])
  BY <1>2
<1>4. QED
  BY <1>1, <1>3 DEF Same

WithTable(d, t, rows) == [d EXCEPT ![t] = rows]

LEMMA TableChanged ==
    ASSUME NEW d, IsDatabase(d), NEW t \in Tables, NEW rows \in SUBSET RowsOf[t]
    PROVE  /\ IsDatabase(WithTable(d, t, rows))
           /\ \A s \in Tables : WithTable(d, t, rows)[s] = IF s = t THEN rows ELSE d[s]
<1> DEFINE e == WithTable(d, t, rows)
<1>1. e = [s \in Tables |-> IF s = t THEN rows ELSE d[s]]
  BY DEF IsDatabase, WithTable
<1>2. \A s \in Tables : e[s] = IF s = t THEN rows ELSE d[s]
  BY <1>1
<1>3. e = [s \in Tables |-> e[s]]
  BY <1>1
<1> HIDE DEF e
<1>4. QED
  BY <1>2, <1>3 DEF e, IsDatabase

LEMMA InsertKeeps ==
    ASSUME NEW d, Sound(d), NEW t \in Tables, NEW row \in RowsOf[t],
           t = "accountsecrets" => row.bad = 0
    PROVE  \A o \in Insert(d, t, row) : Fine(d, o.db)
<1> DEFINE e == WithTable(d, t, d[t] \cup {row})
<1> SUFFICES ASSUME ~ \E r \in d[t] : Same(r, row, Key[t]), ForeignKeys => Supported(d, t, row)
             PROVE  Fine(d, e)
  <2>1. ASSUME NEW o \in Insert(d, t, row)
        PROVE  \/ o.db = d
               \/ /\ ~ \E r \in d[t] : Same(r, row, Key[t])
                  /\ ForeignKeys => Supported(d, t, row)
                  /\ o.db = e
    BY DEF Insert, Ran, Failed, WithTable
  <2>2. QED
    BY <2>1, Stays
<1>1. IsDatabase(d) /\ d[t] \cup {row} \in SUBSET RowsOf[t]
  BY DEF Sound, IsDatabase
<1>2. IsDatabase(e) /\ \A s \in Tables : e[s] = IF s = t THEN d[t] \cup {row} ELSE d[s]
  BY <1>1, TableChanged
<1> HIDE DEF e
<1>3. HasRuler(e)
  BY <1>2, TablesAre DEF Sound, HasRuler
<1>4. SecretsAreUnique(e)
  <2>1. CASE t = "accountsecrets"
    <3>1. \A r \in d.accountsecrets : r.user # row.user \/ r.index # row.index
      BY <2>1, KeysAre DEF Same
    <3>2. e.accountsecrets = d.accountsecrets \cup {row}
      BY <1>2, <2>1
    <3>3. QED
      BY <3>1, <3>2 DEF Sound, SecretsAreUnique
  <2>2. CASE t # "accountsecrets"
    BY <1>2, <2>2, TablesAre DEF Sound, SecretsAreUnique
  <2>3. QED
    BY <2>1, <2>2
<1>5. ASSUME ForeignKeys PROVE Integral(e)
  <2>1. \A s \in Tables : \A r \in d[s] : r \in e[s] /\ Same(r, r, Key[s])
    BY <1>2 DEF Same
  <2>2. \A s \in Tables : \A q \in e[s] : Supported(d, s, q)
    BY <1>2, <1>5 DEF Sound, Integral
  <2>3. QED
    BY <2>1, <2>2, StaysIntegral
<1>6. SecretsFrom(d, e)
  BY <1>2, TablesAre DEF SecretsFrom
<1>7. QED
  BY <1>2, <1>3, <1>4, <1>5, <1>6 DEF Fine, Sound

LEMMA PruneKeeps ==
    ASSUME NEW d, IsDatabase(d)
    PROVE  /\ IsDatabase(Prune(d)) /\ Prune(d)["accounts"] = d["accounts"]
           /\ \A t \in Tables : Prune(d)[t] \subseteq d[t]
<1>1. \A t \in Tables : Prune(d)[t] \subseteq d[t] /\ Prune(d) = [s \in Tables |-> Prune(d)[s]]
  BY DEF Prune
<1>2. Prune(d)["accounts"] = d["accounts"]
  BY TablesAre, ParentsAre DEF Prune, Supported
<1>3. QED
  BY <1>1, <1>2, TablesAre DEF IsDatabase

LEMMA CascadeKeeps ==
    ASSUME NEW d, IsDatabase(d)
    PROVE  /\ IsDatabase(Cascade(d)) /\ Cascade(d)["accounts"] = d["accounts"]
           /\ \A t \in Tables : Cascade(d)[t] \subseteq d[t]
<1>1. IsDatabase(Prune(Prune(d))) /\ IsDatabase(Prune(d))
  BY PruneKeeps
<1>2. /\ IsDatabase(Prune(Prune(Prune(d)))) /\ Prune(Prune(Prune(d)))["accounts"] = d["accounts"]
      /\ \A t \in Tables : Prune(Prune(Prune(d)))[t] \subseteq d[t]
  BY <1>1, PruneKeeps
<1>3. QED
  BY <1>2 DEF Cascade

LEMMA DeleteKeeps ==
    ASSUME NEW d, Sound(d), NEW t \in Tables, NEW key,
           t = "accounts" => \E r \in d.accounts : Ruler(r) /\ ~Matches(r, key)
    PROVE  \A o \in Delete(d, t, key) : Fine(d, o.db)
<1> DEFINE rows == d[t] \ Rows(d, t, key)
           cut == WithTable(d, t, rows)
           e == Cascade(cut)
<1> SUFFICES Fine(d, e)
  BY Stays DEF Delete, Ran, Failed, WithTable
<1>1. IsDatabase(d) /\ rows \in SUBSET RowsOf[t] /\ rows = d[t] \ Rows(d, t, key)
  BY DEF Sound, IsDatabase
<1> HIDE DEF rows
<1>2. IsDatabase(cut) /\ \A s \in Tables : cut[s] = IF s = t THEN rows ELSE d[s]
  BY <1>1, TableChanged
<1> HIDE DEF cut
<1>3. IsDatabase(e) /\ e["accounts"] = cut["accounts"] /\ \A s \in Tables : e[s] \subseteq cut[s]
  BY <1>2, CascadeKeeps
<1>4. ForeignKeys => Integral(e)
  BY CascadeSettles
<1> HIDE DEF e
<1>5. HasRuler(e)
  <2>1. PICK r \in d.accounts : Ruler(r) /\ (t = "accounts" => ~Matches(r, key))
    BY DEF Sound, HasRuler
  <2>2. r \in cut["accounts"]
    BY <1>1, <1>2, <2>1, TablesAre DEF Rows
  <2>3. QED
    BY <1>3, <2>1, <2>2 DEF HasRuler
<1>6. \A r \in e.accountsecrets : r \in d.accountsecrets
  BY <1>1, <1>2, <1>3, TablesAre
<1>7. SecretsAreUnique(e) /\ SecretsFrom(d, e)
  BY <1>6 DEF Sound, SecretsAreUnique, SecretsFrom
<1>8. QED
  BY <1>3, <1>4, <1>5, <1>7 DEF Fine, Sound

\* Rows that change keep their own key and those of the rows they refer to.
KeepsKeys(t, q, r) == Same(q, r, Key[t]) /\ \A p \in Parents[t] : Same(q, r, Key[p])

\* The rows of one table become others.
Rewritten(d, e, t, f) ==
    /\ f \in [RowsOf[t] -> RowsOf[t]]
    /\ \A r \in RowsOf[t] : KeepsKeys(t, f[r], r)
    /\ t = "accounts" => \E r \in d.accounts : Ruler(f[r])
    /\ IsDatabase(e)
    /\ \A q : q \in e[t] <=> \E r \in d[t] : q = f[r]
    /\ \A s \in Tables \ {t} : e[s] = d[s]

LEMMA RewriteKeeps ==
    ASSUME NEW d, NEW e, NEW t \in Tables, NEW f, Sound(d), Rewritten(d, e, t, f)
    PROVE  Sound(e)
<1> DEFINE rows == e[t]
<1>1. IsDatabase(d) /\ d[t] \subseteq RowsOf[t]
  BY DEF Sound, IsDatabase
<1>2. f \in [RowsOf[t] -> RowsOf[t]] /\ \A q : q \in rows <=> \E r \in d[t] : q = f[r]
  BY DEF Rewritten
<1>3. IsDatabase(e) /\ \A s \in Tables : e[s] = IF s = t THEN rows ELSE d[s]
  BY DEF Rewritten
<1> HIDE DEF rows
<1>4. HasRuler(e)
  BY <1>2, <1>3, TablesAre DEF Sound, HasRuler, Rewritten
<1>5. SecretsAreUnique(e)
  <2>1. CASE t = "accountsecrets"
    <3>1. \A r \in d[t] : f[r].user = r.user /\ f[r].index = r.index
      BY <1>1, <2>1, KeysAre DEF KeepsKeys, Rewritten, Same
    <3>2. \A r, s \in d[t] : r.user = s.user /\ r.index = s.index => r = s
      BY <2>1 DEF Sound, SecretsAreUnique
    <3>3. \A x, y \in rows : x.user = y.user /\ x.index = y.index => x = y
      BY <1>2, <3>1, <3>2
    <3>4. QED
      BY <1>3, <2>1, <3>3 DEF SecretsAreUnique
  <2>2. CASE t # "accountsecrets"
    BY <1>3, <2>2, TablesAre DEF Sound, SecretsAreUnique
  <2>3. QED
    BY <2>1, <2>2
<1>6. ASSUME ForeignKeys PROVE Integral(e)
  <2>1. \A s \in Tables : \A r \in d[s] : Supported(d, s, r)
    BY <1>6 DEF Sound, Integral
  <2>2. ASSUME NEW s \in Tables, NEW r \in d[s] PROVE \E q \in e[s] : Same(q, r, Key[s])
    <3>1. CASE s = t
      BY <1>1, <1>2, <1>3, <2>2, <3>1 DEF KeepsKeys, Rewritten
    <3>2. CASE s # t
      BY <1>3, <2>2, <3>2 DEF Same
    <3>3. QED
      BY <3>1, <3>2
  <2>3. ASSUME NEW s \in Tables, NEW q \in e[s] PROVE Supported(d, s, q)
    <3>1. CASE s = t
      <4>1. PICK r \in d[t] : q = f[r]
        BY <1>2, <1>3, <2>3, <3>1
      <4>2. \A p \in Parents[t] : Same(q, r, Key[p])
        BY <1>1, <4>1 DEF KeepsKeys, Rewritten
      <4>3. QED
        BY <2>1, <3>1, <4>1, <4>2 DEF Supported, Same
    <3>2. CASE s # t
      BY <1>3, <2>1, <2>3, <3>2
    <3>3. QED
      BY <3>1, <3>2
  <2>4. QED
    BY <2>2, <2>3, StaysIntegral
<1>7. QED
  BY <1>3, <1>4, <1>5, <1>6 DEF Sound

LEMMA SetKeeps ==
    ASSUME NEW d, Sound(d), NEW t \in Tables, NEW key, NEW columns,
           \A r \in RowsOf[t] : With(r, columns) \in RowsOf[t] /\ KeepsKeys(t, With(r, columns), r),
           t = "accounts" => \E r \in d.accounts : Ruler(r) /\ (Matches(r, key) => Ruler(With(r, columns))),
           t = "accountsecrets" => \A r \in RowsOf[t] : (With(r, columns)).bad = 0
    PROVE  \A o \in Set(d, t, key, columns) : Fine(d, o.db)
<1> DEFINE f == [r \in RowsOf[t] |-> IF Matches(r, key) THEN With(r, columns) ELSE r]
           rows == {f[r] : r \in d[t]}
           e == WithTable(d, t, rows)
<1>1. d[t] \subseteq RowsOf[t]
  BY DEF Sound, IsDatabase
<1>2. {IF Matches(r, key) THEN With(r, columns) ELSE r : r \in d[t]} = rows
  BY <1>1
<1>3. \A o \in Set(d, t, key, columns) : o.db = e \/ o.db = d
  <2>1. Set(d, t, key, columns) =
            Ran(d, [d EXCEPT ![t] = {IF Matches(r, key) THEN With(r, columns) ELSE r : r \in d[t]}])
    BY DEF Set
  <2>2. Set(d, t, key, columns) = Ran(d, e)
    BY <1>2, <2>1 DEF WithTable
  <2>3. \A x : \A o \in Ran(d, x) : o.db = x \/ o.db = d
    BY DEF Ran, Failed
  <2>4. QED
    BY <2>2, <2>3
<1>4. f \in [RowsOf[t] -> RowsOf[t]]
  OBVIOUS
<1>5. \A r \in RowsOf[t] : KeepsKeys(t, f[r], r)
  BY DEF KeepsKeys, Same
<1>6. t = "accounts" => \E r \in d.accounts : Ruler(f[r])
  BY <1>1
<1>7. t = "accountsecrets" => \A r \in RowsOf[t] : f[r].bad = 0 \/ f[r] = r
  OBVIOUS
<1>8. \A q : q \in rows <=> \E r \in d[t] : q = f[r]
  OBVIOUS
<1> HIDE DEF f, rows
<1>9. Sound(e) /\ \A s \in Tables : e[s] = IF s = t THEN rows ELSE d[s]
  <2>1. rows \in SUBSET RowsOf[t] /\ IsDatabase(d)
    BY <1>1, <1>4, <1>8 DEF Sound
  <2>2. IsDatabase(e) /\ \A s \in Tables : e[s] = IF s = t THEN rows ELSE d[s]
    BY <2>1, TableChanged
  <2> HIDE DEF e
  <2>3. Rewritten(d, e, t, f)
    BY <1>4, <1>5, <1>6, <1>8, <2>2 DEF Rewritten
  <2>4. QED
    BY <2>2, <2>3, RewriteKeeps
<1> HIDE DEF e
<1>10. SecretsFrom(d, e)
  <2>1. CASE t = "accountsecrets"
    <3>1. \A r \in d[t] : f[r].user = r.user /\ f[r].index = r.index /\ (f[r].bad = 0 \/ f[r].bad = r.bad)
      BY <1>1, <1>5, <1>7, <2>1, KeysAre DEF KeepsKeys, Same
    <3>2. e.accountsecrets = rows
      BY <1>9, <2>1
    <3>3. QED
      BY <1>8, <2>1, <3>1, <3>2 DEF SecretsFrom
  <2>2. CASE t # "accountsecrets"
    BY <1>9, <2>2, TablesAre DEF SecretsFrom
  <2>3. QED
    BY <2>1, <2>2
<1>11. QED
  BY <1>3, <1>9, <1>10, Stays DEF Fine

\* What With(r, columns) is, for the columns that the methods set.
LEMMA MergedAccounts ==
    ASSUME NEW r \in RowsOf["accounts"], NEW b \in BOOLEAN, NEW flags \in AccountFlags
    PROVE  /\ With(r, [enabled |-> b]) = [r EXCEPT !.enabled = b]
           /\ With(r, [confirmed |-> b]) = [r EXCEPT !.confirmed = b]
           /\ With(r, [expired |-> b]) = [r EXCEPT !.expired = b]
           /\ With(r, [idle |-> b]) = [r EXCEPT !.idle = b]
           /\ With(r, [text |-> "new"]) = [r EXCEPT !.text = "new"]
           /\ With(r, flags) = [r EXCEPT !.superuser = flags.superuser, !.enabled = flags.enabled,
                                     !.confirmed = flags.confirmed]
<1> r \in [user : Users, superuser : BOOLEAN, enabled : BOOLEAN, confirmed : BOOLEAN,
           expired : BOOLEAN, idle : BOOLEAN, text : Texts]
  BY RowsAre
<1>1. With(r, [enabled |-> b]) = [r EXCEPT !.enabled = b]
  BY DEF With
<1>2. With(r, [confirmed |-> b]) = [r EXCEPT !.confirmed = b]
  BY DEF With
<1>3. With(r, [expired |-> b]) = [r EXCEPT !.expired = b]
  BY DEF With
<1>4. With(r, [idle |-> b]) = [r EXCEPT !.idle = b]
  BY DEF With
<1>5. With(r, [text |-> "new"]) = [r EXCEPT !.text = "new"]
  BY DEF With
<1>6. With(r, flags) = [r EXCEPT !.superuser = flags.superuser, !.enabled = flags.enabled,
                             !.confirmed = flags.confirmed]
  BY DEF With, AccountFlags
<1>7. QED
  BY <1>1, <1>2, <1>3, <1>4, <1>5, <1>6

LEMMA MergedOthers ==
    /\ \A r \in RowsOf["applications"] : LET q == With(r, [text |-> "new"]) IN
           q \in RowsOf["applications"] /\ q.app = r.app /\ q.user = r.user
    /\ \A r \in RowsOf["groups"] : LET q == With(r, [text |-> "new"]) IN
           q \in RowsOf["groups"] /\ q.group = r.group
    /\ \A r \in RowsOf["secretsindexs"], b \in BOOLEAN : LET q == With(r, [required |-> b]) IN
           q \in RowsOf["secretsindexs"] /\ q.index = r.index
    /\ \A r \in RowsOf["accountsecrets"] : LET q == With(r, [bad |-> 0]) IN
           q \in RowsOf["accountsecrets"] /\ q.index = r.index /\ q.user = r.user /\ q.bad = 0
<1>0. "new" \in Texts
  BY DEF Texts
<1>1. ASSUME NEW r \in [app : Apps, user : Names, text : Texts]
      PROVE  LET q == With(r, [text |-> "new"]) IN
             q \in [app : Apps, user : Names, text : Texts] /\ q.app = r.app /\ q.user = r.user
  <2>1. With(r, [text |-> "new"]) = [r EXCEPT !.text = "new"]
    BY DEF With
  <2>2. QED
    BY <1>0, <2>1
<1>2. ASSUME NEW r \in [group : Groups, text : Texts]
      PROVE  LET q == With(r, [text |-> "new"]) IN q \in [group : Groups, text : Texts] /\ q.group = r.group
  <2>1. With(r, [text |-> "new"]) = [r EXCEPT !.text = "new"]
    BY DEF With
  <2>2. QED
    BY <1>0, <2>1
<1>3. ASSUME NEW r \in [index : Indexes, required : BOOLEAN], NEW b \in BOOLEAN
      PROVE  LET q == With(r, [required |-> b]) IN q \in [index : Indexes, required : BOOLEAN] /\ q.index = r.index
  <2>1. With(r, [required |-> b]) = [r EXCEPT !.required = b]
    BY DEF With
  <2>2. QED
    BY <2>1
<1>4. ASSUME NEW r \in [index : Indexes, user : Users, bad : Nat, expired : BOOLEAN]
      PROVE  LET q == With(r, [bad |-> 0]) IN
             /\ q \in [index : Indexes, user : Users, bad : Nat, expired : BOOLEAN]
             /\ q.index = r.index /\ q.user = r.user /\ q.bad = 0
  <2>1. With(r, [bad |-> 0]) = [r EXCEPT !.bad = 0]
    BY DEF With
  <2>2. QED
    BY <2>1
<1>5. \A r \in RowsOf["applications"] : LET q == With(r, [text |-> "new"]) IN
         q \in RowsOf["applications"] /\ q.app = r.app /\ q.user = r.user
  BY <1>1, RowsAre
<1>6. \A r \in RowsOf["groups"] : LET q == With(r, [text |-> "new"]) IN q \in RowsOf["groups"] /\ q.group = r.group
  BY <1>2, RowsAre
<1>7. \A r \in RowsOf["secretsindexs"], b \in BOOLEAN : LET q == With(r, [required |-> b]) IN
         q \in RowsOf["secretsindexs"] /\ q.index = r.index
  BY <1>3, RowsAre
<1>8. \A r \in RowsOf["accountsecrets"] : LET q == With(r, [bad |-> 0]) IN
         q \in RowsOf["accountsecrets"] /\ q.index = r.index /\ q.user = r.user /\ q.bad = 0
  BY <1>4, RowsAre
<1>9. QED
  BY <1>5, <1>6, <1>7, <1>8

(***************************************************************************)
(* The methods of Manager_DB that change something.                        *)
(***************************************************************************)

LEMMA AccountRow ==
    ASSUME NEW u \in Users, NEW flags \in AccountFlags
    PROVE  /\ Account(u, flags) \in RowsOf["accounts"] /\ Account(u, flags).user = u
           /\ Account(u, flags).superuser = flags.superuser /\ Account(u, flags).enabled = flags.enabled
<1> DEFINE account == Account(u, flags)
<1>1. flags \in [superuser : BOOLEAN, enabled : BOOLEAN, confirmed : BOOLEAN]
  BY DEF AccountFlags
<1>2. account = [c \in {"user", "expired", "idle", "text", "superuser", "enabled", "confirmed"} |-> account[c]]
  BY <1>1 DEF Account, With
<1>3. /\ account.user = u /\ account.superuser = flags.superuser /\ account.enabled = flags.enabled
      /\ account.confirmed = flags.confirmed /\ account.expired = FALSE /\ account.idle = FALSE
      /\ account.text = "old"
  BY <1>1 DEF Account, With
<1> HIDE DEF account
<1>4. account = [user |-> account.user, superuser |-> account.superuser, enabled |-> account.enabled,
                 confirmed |-> account.confirmed, expired |-> account.expired, idle |-> account.idle,
                 text |-> account.text]
  BY <1>2
<1>5. account \in RowsOf["accounts"]
  <2>1. account.text \in Texts
    BY <1>3 DEF Texts
  <2>2. QED
    BY <1>1, <1>3, <1>4, <2>1, RowsAre
<1>6. QED
  BY <1>3, <1>5 DEF account

LEMMA SecretRow ==
    ASSUME NEW u \in Users, NEW i \in Indexes, NEW x \in BOOLEAN
    PROVE  Secret(u, i, x) \in RowsOf["accountsecrets"] /\ Secret(u, i, x).bad = 0
BY RowsAre DEF Secret

LEMMA AttribRows ==
    ASSUME NEW a \in Attribs
    PROVE  /\ With(a, [text |-> "old"]) \in RowsOf["attribs"]
           /\ \A g \in Groups : With(a, [group |-> g]) \in RowsOf["attribsgroups"]
           /\ \A u \in Users : With(a, [user |-> u]) \in RowsOf["attribsaccounts"]
<1>1. With(a, [text |-> "old"]) = [app |-> a.app, attrib |-> a.attrib, text |-> "old"]
  BY DEF With, Attribs
<1>2. \A g : With(a, [group |-> g]) = [app |-> a.app, attrib |-> a.attrib, group |-> g]
  BY DEF With, Attribs
<1>3. \A u : With(a, [user |-> u]) = [app |-> a.app, attrib |-> a.attrib, user |-> u]
  BY DEF With, Attribs
<1>4. a.app \in Apps /\ a.attrib \in Rights
  BY DEF Attribs
<1>5. /\ [app |-> a.app, attrib |-> a.attrib, text |-> "old"] \in RowsOf["attribs"]
      /\ \A g \in Groups : [app |-> a.app, attrib |-> a.attrib, group |-> g] \in RowsOf["attribsgroups"]
      /\ \A u \in Users : [app |-> a.app, attrib |-> a.attrib, user |-> u] \in RowsOf["attribsaccounts"]
  BY <1>4, RowsAre DEF Texts
<1>6. QED
  BY <1>1, <1>2, <1>3, <1>5

\* An UPDATE of accounts leaves a ruler if another account is one, or if it makes rulers only.
LEMMA AccountsSet ==
    ASSUME NEW d, Sound(d), NEW u, NEW columns,
           \A r \in RowsOf["accounts"] : With(r, columns) \in RowsOf["accounts"] /\ With(r, columns).user = r.user,
           isThereAnotherSuperUser(d, u) \/ \A r \in RowsOf["accounts"] : Ruler(r) => Ruler(With(r, columns))
    PROVE  \A o \in Set(d, "accounts", [user |-> u], columns) : Fine(d, o.db)
<1>1. \A r \in RowsOf["accounts"] : KeepsKeys("accounts", With(r, columns), r)
  BY ParentsAre, KeysAre DEF KeepsKeys, Same
<1>2. \E r \in d.accounts : Ruler(r) /\ (Matches(r, [user |-> u]) => Ruler(With(r, columns)))
  <2>1. CASE isThereAnotherSuperUser(d, u)
    BY <2>1 DEF isThereAnotherSuperUser, Ruler, Matches
  <2>2. CASE \A r \in RowsOf["accounts"] : Ruler(r) => Ruler(With(r, columns))
    BY <2>2, TablesAre DEF Sound, HasRuler, IsDatabase
  <2>3. QED
    BY <2>1, <2>2
<1>3. "accounts" \in Tables /\ "accounts" # "accountsecrets"
  BY TablesAre
<1>4. QED
  BY <1>1, <1>2, <1>3, SetKeeps

LEMMA AccountSetters ==
    ASSUME NEW d, Sound(d), NEW u \in Users, NEW b \in BOOLEAN, NEW flags \in AccountFlags
    PROVE  /\ \A o \in accountDisable(d, u, b) : Fine(d, o.db)
           /\ \A o \in accountConfirm(d, u) : Fine(d, o.db)
           /\ \A o \in accountChangeText(d, u, "new") : Fine(d, o.db)
           /\ \A o \in accountChangeExpiration(d, u, b) : Fine(d, o.db)
           /\ \A o \in accountChangeAttribs(d, u, flags) : Fine(d, o.db)
           /\ \A e \in updateLastLogin(d, u) : Fine(d, e)
<1> DEFINE Accounts == RowsOf["accounts"]
<1>0. Accounts = [user : Users, superuser : BOOLEAN, enabled : BOOLEAN, confirmed : BOOLEAN,
                  expired : BOOLEAN, idle : BOOLEAN, text : Texts]
  BY RowsAre
<1> HIDE DEF Accounts
<1>1. \A o \in Failed(d) : Fine(d, o.db)
  BY Stays DEF Failed
<1>2. \A o \in accountDisable(d, u, b) : Fine(d, o.db)
  <2>1. \A r \in Accounts : With(r, [enabled |-> ~b]) = [r EXCEPT !.enabled = ~b]
    BY MergedAccounts DEF Accounts
  <2>2. \A r \in Accounts : With(r, [enabled |-> ~b]) \in Accounts /\ With(r, [enabled |-> ~b]).user = r.user
    BY <1>0, <2>1
  <2>3. ~b => \A r \in Accounts : Ruler(r) => Ruler(With(r, [enabled |-> ~b]))
    BY <1>0, <2>1 DEF Ruler
  <2>4. (b /\ ~isThereAnotherSuperUser(d, u)) \/ \A o \in Set(d, "accounts", [user |-> u], [enabled |-> ~b]) : Fine(d, o.db)
    BY <2>2, <2>3, AccountsSet DEF Accounts
  <2>5. QED
    BY <1>1, <2>4 DEF accountDisable
<1>3. \A o \in accountConfirm(d, u) : Fine(d, o.db)
  <2>1. \A r \in Accounts : With(r, [confirmed |-> TRUE]) = [r EXCEPT !.confirmed = TRUE]
    BY MergedAccounts DEF Accounts
  <2>2. \A r \in Accounts : /\ With(r, [confirmed |-> TRUE]) \in Accounts
                            /\ With(r, [confirmed |-> TRUE]).user = r.user
                            /\ Ruler(r) => Ruler(With(r, [confirmed |-> TRUE]))
    BY <1>0, <2>1 DEF Ruler
  <2>3. \A o \in Set(d, "accounts", [user |-> u], [confirmed |-> TRUE]) : Fine(d, o.db)
    BY <2>2, AccountsSet DEF Accounts
  <2>4. QED
    BY <1>1, <2>3 DEF accountConfirm
<1>4. \A o \in accountChangeText(d, u, "new") : Fine(d, o.db)
  <2>1. \A r \in Accounts : With(r, [text |-> "new"]) = [r EXCEPT !.text = "new"]
    BY MergedAccounts DEF Accounts
  <2>2. \A r \in Accounts : /\ With(r, [text |-> "new"]) \in Accounts
                            /\ With(r, [text |-> "new"]).user = r.user
                            /\ Ruler(r) => Ruler(With(r, [text |-> "new"]))
    <3>1. "new" \in Texts
      BY DEF Texts
    <3>2. QED
      BY <1>0, <2>1, <3>1 DEF Ruler
  <2>3. QED
    BY <2>2, AccountsSet DEF Accounts, accountChangeText
<1>5. \A o \in accountChangeExpiration(d, u, b) : Fine(d, o.db)
  <2>1. \A r \in Accounts : With(r, [expired |-> b]) = [r EXCEPT !.expired = b]
    BY MergedAccounts DEF Accounts
  <2>2. \A r \in Accounts : /\ With(r, [expired |-> b]) \in Accounts
                            /\ With(r, [expired |-> b]).user = r.user
                            /\ Ruler(r) => Ruler(With(r, [expired |-> b]))
    BY <1>0, <2>1 DEF Ruler
  <2>3. QED
    BY <2>2, AccountsSet DEF Accounts, accountChangeExpiration
<1>6. \A o \in accountChangeAttribs(d, u, flags) : Fine(d, o.db)
  <2>1. \A r \in Accounts : With(r, flags) = [r EXCEPT !.superuser = flags.superuser, !.enabled = flags.enabled,
                                                       !.confirmed = flags.confirmed]
    BY MergedAccounts DEF Accounts
  <2>2. flags.superuser \in BOOLEAN /\ flags.enabled \in BOOLEAN /\ flags.confirmed \in BOOLEAN
    BY DEF AccountFlags
  <2>3. \A r \in Accounts : With(r, flags) \in Accounts /\ With(r, flags).user = r.user
    BY <1>0, <2>1, <2>2
  <2>4. flags.superuser /\ flags.enabled => \A r \in Accounts : Ruler(r) => Ruler(With(r, flags))
    BY <1>0, <2>1 DEF Ruler
  <2>5. \/ ~(flags.enabled /\ flags.confirmed /\ flags.superuser) /\ ~isThereAnotherSuperUser(d, u)
        \/ \A o \in Set(d, "accounts", [user |-> u], flags) : Fine(d, o.db)
    BY <2>3, <2>4, AccountsSet DEF Accounts
  <2>6. QED
    BY <1>1, <2>5 DEF accountChangeAttribs
<1>7. \A e \in updateLastLogin(d, u) : Fine(d, e)
  <2>1. \A r \in Accounts : With(r, [idle |-> FALSE]) = [r EXCEPT !.idle = FALSE]
    BY MergedAccounts DEF Accounts
  <2>2. \A r \in Accounts : /\ With(r, [idle |-> FALSE]) \in Accounts
                            /\ With(r, [idle |-> FALSE]).user = r.user
                            /\ Ruler(r) => Ruler(With(r, [idle |-> FALSE]))
    BY <1>0, <2>1 DEF Ruler
  <2>3. \A o \in Set(d, "accounts", [user |-> u], [idle |-> FALSE]) : Fine(d, o.db)
    BY <2>2, AccountsSet DEF Accounts
  <2>4. QED
    BY <2>3 DEF updateLastLogin
<1>8. QED
  BY <1>2, <1>3, <1>4, <1>5, <1>6, <1>7

LEMMA AccountAdds ==
    ASSUME NEW d, Sound(d), NEW u \in Users, NEW flags \in AccountFlags
    PROVE  \A o \in accountAdd(d, u, flags) : Fine(d, o.db)
<1>1. "accounts" \in Tables /\ "accountactivationtokens" \in Tables /\ "accountsecrets" \in Tables
  BY TablesAre
<1>2. [user |-> u] \in RowsOf["accountactivationtokens"]
  BY RowsAre
<1>3. Secret(u, 0, TRUE) \in RowsOf["accountsecrets"] /\ Secret(u, 0, TRUE).bad = 0
  BY SecretRow, AuthAssumption
<1>4. \A o \in Insert(d, "accounts", Account(u, flags)) : Fine(d, o.db)
  BY <1>1, AccountRow, InsertKeeps
<1>5. ASSUME NEW e, Fine(d, e) PROVE \A o \in Insert(e, "accountactivationtokens", [user |-> u]) : Fine(d, o.db)
  BY <1>1, <1>2, <1>5, InsertKeeps, FineFollows DEF Fine
<1>6. ASSUME NEW e, Fine(d, e) PROVE \A o \in Insert(e, "accountsecrets", Secret(u, 0, TRUE)) : Fine(d, o.db)
  BY <1>1, <1>3, <1>6, InsertKeeps, FineFollows DEF Fine
<1> DEFINE two == Then(Insert(d, "accounts", Account(u, flags)),
                       LAMBDA e : Insert(e, "accountactivationtokens", [user |-> u]))
<1>7. \A o \in two : Fine(d, o.db)
  BY <1>4, <1>5 DEF Then
<1>8. accountAdd(d, u, flags) = Then(two, LAMBDA e : Insert(e, "accountsecrets", Secret(u, 0, TRUE)))
  BY DEF accountAdd
<1> HIDE DEF two
<1>9. QED
  BY <1>6, <1>7, <1>8 DEF Then

LEMMA AccountRemoves ==
    ASSUME NEW d, Sound(d), NEW u
    PROVE  \A o \in accountRemove(d, u) : Fine(d, o.db)
<1>1. CASE isThereAnotherSuperUser(d, u)
  <2>1. \E r \in d.accounts : Ruler(r) /\ ~Matches(r, [user |-> u])
    BY <1>1 DEF isThereAnotherSuperUser, Ruler, Matches
  <2>2. \A o \in Delete(d, "accounts", [user |-> u]) : Fine(d, o.db)
    BY <2>1, TablesAre, DeleteKeeps
  <2>3. QED
    BY <1>1, <2>2 DEF accountRemove
<1>2. CASE ~isThereAnotherSuperUser(d, u)
  BY <1>2, Stays DEF accountRemove, Failed
<1>3. QED
  BY <1>1, <1>2

LEMMA SecretChanges ==
    ASSUME NEW d, Sound(d), NEW u \in Users, NEW i \in Indexes, NEW x \in BOOLEAN
    PROVE  \A o \in accountChangeSecret(d, u, i, x) : Fine(d, o.db)
<1>1. "accountsecrets" \in Tables
  BY TablesAre
<1>2. \A o \in Delete(d, "accountsecrets", [user |-> u, index |-> i]) : Fine(d, o.db)
  BY <1>1, DeleteKeeps
<1>3. ASSUME NEW e, Fine(d, e) PROVE \A o \in Insert(e, "accountsecrets", Secret(u, i, x)) : Fine(d, o.db)
  BY <1>1, <1>3, SecretRow, InsertKeeps, FineFollows DEF Fine
<1>4. QED
  BY <1>2, <1>3 DEF accountChangeSecret

LEMMA GroupSetChanges ==
    ASSUME NEW d, Sound(d), NEW u \in Users, NEW gs \in SUBSET Groups
    PROVE  \A o \in accountChangeGroupSet(d, u, gs) : Fine(d, o.db)
<1>1. "groupsaccounts" \in Tables
  BY TablesAre
<1>2. \A o \in Delete(d, "groupsaccounts", [user |-> u]) : Fine(d, o.db)
  BY <1>1, DeleteKeeps
<1>3. ASSUME NEW e, Fine(d, e), NEW done \in GroupsDone(e, u, gs)
      PROVE  Fine(d, InGroups(e, u, done))
  <2> DEFINE added == {[group |-> g, user |-> u] : g \in done}
             rows == e["groupsaccounts"] \cup added
             f == WithTable(e, "groupsaccounts", rows)
  <2>1. Sound(e) /\ IsDatabase(e)
    BY <1>3 DEF Fine, Sound
  <2>2. added \subseteq RowsOf["groupsaccounts"]
    <3>1. \A g \in done : [group |-> g, user |-> u] \in RowsOf["groupsaccounts"]
      BY <1>3, RowsAre DEF GroupsDone
    <3>2. QED
      BY <3>1
  <2>3. ForeignKeys => \A q \in added : Supported(e, "groupsaccounts", q)
    BY <1>3 DEF GroupsDone
  <2> HIDE DEF added
  <2>4. rows \in SUBSET RowsOf["groupsaccounts"] /\ rows = e["groupsaccounts"] \cup added
    BY <1>1, <2>1, <2>2 DEF IsDatabase
  <2> HIDE DEF rows
  <2>5. IsDatabase(f) /\ \A s \in Tables : f[s] = IF s = "groupsaccounts" THEN rows ELSE e[s]
    BY <1>1, <2>1, <2>4, TableChanged
  <2> HIDE DEF f
  <2>6. ASSUME ForeignKeys PROVE Integral(f)
    <3>1. \A s \in Tables : \A r \in e[s] : r \in f[s] /\ Same(r, r, Key[s])
      BY <2>4, <2>5 DEF Same
    <3>2. \A s \in Tables : \A q \in f[s] : Supported(e, s, q)
      BY <2>1, <2>3, <2>4, <2>5, <2>6 DEF Sound, Integral
    <3>3. QED
      BY <3>1, <3>2, StaysIntegral
  <2>7. f.accounts = e.accounts /\ f.accountsecrets = e.accountsecrets
    BY <2>5, TablesAre
  <2>8. Sound(f)
    BY <2>1, <2>5, <2>6, <2>7 DEF Sound, HasRuler, SecretsAreUnique
  <2>9. Fine(d, f)
    BY <1>3, <2>7, <2>8 DEF Fine, SecretsFrom
  <2>10. QED
    BY <2>9 DEF f, rows, added, InGroups, WithTable
<1>4. ASSUME NEW o \in accountChangeGroupSet(d, u, gs) PROVE Fine(d, o.db)
  <2>1. PICK p \in Delete(d, "groupsaccounts", [user |-> u]) :
               o = p \/ \E done \in GroupsDone(p.db, u, gs) : o.db = InGroups(p.db, u, done)
    BY DEF accountChangeGroupSet, Then
  <2>2. QED
    BY <1>2, <1>3, <2>1
<1>5. QED
  BY <1>4

\* Deletes that do not concern accounts, and inserts, need no more than their rows' types.
LEMMA OtherDeletes ==
    ASSUME NEW d, Sound(d), NEW key
    PROVE  \A t \in Tables \ {"accounts"} : \A o \in Delete(d, t, key) : Fine(d, o.db)
BY DeleteKeeps

LEMMA OtherInserts ==
    ASSUME NEW d, Sound(d)
    PROVE  \A t \in Tables \ {"accountsecrets"} : \A row \in RowsOf[t] : \A o \in Insert(d, t, row) : Fine(d, o.db)
BY InsertKeeps

LEMMA ApplicationMethods ==
    ASSUME NEW d, Sound(d), NEW p \in Apps, NEW u \in Users, NEW me \in Names
    PROVE  /\ \A o \in applicationAdd(d, p, me) : Fine(d, o.db)
           /\ \A o \in applicationRemove(d, p) : Fine(d, o.db)
           /\ \A o \in applicationChangeText(d, p, "new") : Fine(d, o.db)
           /\ \A o \in applicationAccountAdd(d, p, u) \cup applicationAccountRemove(d, p, u) : Fine(d, o.db)
           /\ \A o \in applicationOwnerAdd(d, p, u) \cup applicationOwnerRemove(d, p, u) : Fine(d, o.db)
<1>1. [app |-> p, user |-> me, text |-> "old"] \in RowsOf["applications"]
  BY RowsAre DEF Names, Texts
<1>2. [user |-> u, app |-> p] \in RowsOf["applicationusers"] /\ [user |-> u, app |-> p] \in RowsOf["applicationmanagers"]
  BY RowsAre
<1>3. {"applications", "applicationusers", "applicationmanagers"} \subseteq Tables \ {"accounts", "accountsecrets"}
  BY TablesAre
<1>4. \A o \in applicationAdd(d, p, me) : Fine(d, o.db)
  BY <1>1, <1>3, OtherInserts DEF applicationAdd
<1>5. \A o \in applicationRemove(d, p) : Fine(d, o.db)
  BY <1>3, OtherDeletes DEF applicationRemove
<1>6. \A o \in applicationChangeText(d, p, "new") : Fine(d, o.db)
  <2>1. ASSUME NEW r \in RowsOf["applications"]
        PROVE  With(r, [text |-> "new"]) \in RowsOf["applications"] /\ KeepsKeys("applications", With(r, [text |-> "new"]), r)
    BY MergedOthers, KeysAre, ParentsAre DEF KeepsKeys, Same
  <2>2. QED
    BY <1>3, <2>1, SetKeeps DEF applicationChangeText
<1>7. \A o \in applicationAccountAdd(d, p, u) \cup applicationAccountRemove(d, p, u) : Fine(d, o.db)
  BY <1>2, <1>3, OtherInserts, OtherDeletes DEF applicationAccountAdd, applicationAccountRemove
<1>8. \A o \in applicationOwnerAdd(d, p, u) \cup applicationOwnerRemove(d, p, u) : Fine(d, o.db)
  BY <1>2, <1>3, OtherInserts, OtherDeletes DEF applicationOwnerAdd, applicationOwnerRemove
<1>9. QED
  BY <1>4, <1>5, <1>6, <1>7, <1>8

LEMMA AttribMethods ==
    ASSUME NEW d, Sound(d), NEW a \in Attribs
    PROVE  /\ \A o \in attribAdd(d, a) \cup attribRemove(d, a) : Fine(d, o.db)
           /\ \A g \in Groups : \A o \in attribGroupAdd(d, a, g) \cup attribGroupRemove(d, a, g) : Fine(d, o.db)
           /\ \A u \in Users : \A o \in attribAccountAdd(d, a, u) \cup attribAccountRemove(d, a, u) : Fine(d, o.db)
<1>1. {"attribs", "attribsgroups", "attribsaccounts"} \subseteq Tables \ {"accounts", "accountsecrets"}
  BY TablesAre
<1>2. QED
  BY <1>1, AttribRows, OtherInserts, OtherDeletes
     DEF attribAdd, attribRemove, attribGroupAdd, attribGroupRemove, attribAccountAdd, attribAccountRemove

LEMMA GroupMethods ==
    ASSUME NEW d, Sound(d), NEW g \in Groups, NEW u \in Users
    PROVE  /\ \A o \in groupAdd(d, g) \cup groupRemove(d, g) : Fine(d, o.db)
           /\ \A o \in groupAccountAdd(d, g, u) \cup groupAccountRemove(d, g, u) : Fine(d, o.db)
           /\ \A o \in groupChangeText(d, g, "new") : Fine(d, o.db)
<1>1. [group |-> g, text |-> "old"] \in RowsOf["groups"] /\ [group |-> g, user |-> u] \in RowsOf["groupsaccounts"]
  BY RowsAre DEF Texts
<1>2. {"groups", "groupsaccounts"} \subseteq Tables \ {"accounts", "accountsecrets"}
  BY TablesAre
<1>3. \A o \in groupAdd(d, g) \cup groupRemove(d, g) : Fine(d, o.db)
  BY <1>1, <1>2, OtherInserts, OtherDeletes DEF groupAdd, groupRemove
<1>4. \A o \in groupAccountAdd(d, g, u) \cup groupAccountRemove(d, g, u) : Fine(d, o.db)
  BY <1>1, <1>2, OtherInserts, OtherDeletes DEF groupAccountAdd, groupAccountRemove
<1>5. \A o \in groupChangeText(d, g, "new") : Fine(d, o.db)
  <2>1. ASSUME NEW r \in RowsOf["groups"]
        PROVE  With(r, [text |-> "new"]) \in RowsOf["groups"] /\ KeepsKeys("groups", With(r, [text |-> "new"]), r)
    BY MergedOthers, KeysAre, ParentsAre DEF KeepsKeys, Same
  <2>2. QED
    BY <1>2, <2>1, SetKeeps DEF groupChangeText
<1>6. QED
  BY <1>3, <1>4, <1>5

LEMMA IndexMethods ==
    ASSUME NEW d, Sound(d), NEW i \in Indexes, NEW x \in BOOLEAN
    PROVE  \A o \in passIndexAdd(d, i, x) \cup passIndexModify(d, i, x) \cup passIndexDelete(d, i) : Fine(d, o.db)
<1>1. [index |-> i, required |-> x] \in RowsOf["secretsindexs"]
  BY RowsAre
<1>2. "secretsindexs" \in Tables \ {"accounts", "accountsecrets"}
  BY TablesAre
<1>3. \A o \in passIndexAdd(d, i, x) \cup passIndexDelete(d, i) : Fine(d, o.db)
  BY <1>1, <1>2, OtherInserts, OtherDeletes DEF passIndexAdd, passIndexDelete
<1>4. ASSUME NEW r \in RowsOf["secretsindexs"]
      PROVE  With(r, [required |-> x]) \in RowsOf["secretsindexs"] /\ KeepsKeys("secretsindexs", With(r, [required |-> x]), r)
  BY MergedOthers, KeysAre, ParentsAre DEF KeepsKeys, Same
<1>5. \A o \in passIndexModify(d, i, x) : Fine(d, o.db)
  BY <1>2, <1>4, SetKeeps DEF passIndexModify
<1>6. QED
  BY <1>3, <1>5

LEMMA AttemptsReset ==
    ASSUME NEW d, Sound(d), NEW u, NEW i
    PROVE  \A e \in resetBadAttempts(d, u, i) : Fine(d, e)
<1>1. "accountsecrets" \in Tables /\ "accountsecrets" # "accounts"
  BY TablesAre
<1>2. ASSUME NEW r \in RowsOf["accountsecrets"]
      PROVE  /\ With(r, [bad |-> 0]) \in RowsOf["accountsecrets"] /\ With(r, [bad |-> 0]).bad = 0
             /\ KeepsKeys("accountsecrets", With(r, [bad |-> 0]), r)
  BY MergedOthers, KeysAre, ParentsAre DEF KeepsKeys, Same
<1>3. \A o \in Set(d, "accountsecrets", [user |-> u, index |-> i], [bad |-> 0]) : Fine(d, o.db)
  BY <1>1, <1>2, SetKeeps
<1>4. QED
  BY <1>3 DEF resetBadAttempts

\* The only statement that raises a counter.
LEMMA AttemptsIncremented ==
    ASSUME NEW d, Sound(d), NEW u, NEW i, NEW e \in incrementBadAttempts(d, u, i)
    PROVE  /\ Sound(e)
           /\ \A s \in e.accountsecrets : \E r \in d.accountsecrets :
                  /\ r.user = s.user /\ r.index = s.index
                  /\ s.bad = r.bad \/ (s.bad = r.bad + 1 /\ r.user = u /\ r.index = i)
<1> DEFINE Secrets == RowsOf["accountsecrets"]
           f == [r \in Secrets |-> IF r.user = u /\ r.index = i THEN [r EXCEPT !.bad = @ + 1] ELSE r]
           rows == {IF r.user = u /\ r.index = i THEN [r EXCEPT !.bad = @ + 1] ELSE r : r \in d["accountsecrets"]}
           new == WithTable(d, "accountsecrets", rows)
<1>1. "accountsecrets" \in Tables /\ "accountsecrets" # "accounts"
  BY TablesAre
<1>2. d["accountsecrets"] \subseteq Secrets /\ IsDatabase(d)
  BY <1>1 DEF Sound, IsDatabase
<1>3. e = new \/ e = d
  BY DEF incrementBadAttempts, Ran, Failed, WithTable
<1>4. \A r \in Secrets : /\ f[r] \in Secrets /\ f[r].user = r.user /\ f[r].index = r.index
                         /\ f[r].bad = r.bad \/ (f[r].bad = r.bad + 1 /\ r.user = u /\ r.index = i)
  <2>1. ASSUME NEW r \in [index : Indexes, user : Users, bad : Nat, expired : BOOLEAN]
        PROVE  LET q == [r EXCEPT !.bad = @ + 1] IN
               /\ q \in [index : Indexes, user : Users, bad : Nat, expired : BOOLEAN]
               /\ q.index = r.index /\ q.user = r.user /\ q.bad = r.bad + 1
    OBVIOUS
  <2>2. QED
    BY <2>1, RowsAre
<1>5. \A q : q \in rows <=> \E r \in d["accountsecrets"] : q = f[r]
  BY <1>2
<1>6. f \in [Secrets -> Secrets]
  BY <1>4
<1> HIDE DEF f, rows
<1>7. rows \in SUBSET Secrets
  BY <1>2, <1>4, <1>5
<1>8. IsDatabase(new) /\ \A s \in Tables : new[s] = IF s = "accountsecrets" THEN rows ELSE d[s]
  BY <1>1, <1>2, <1>7, TableChanged
<1> HIDE DEF new
<1>9. \A r \in Secrets : KeepsKeys("accountsecrets", f[r], r)
  BY <1>4, KeysAre, ParentsAre DEF KeepsKeys, Same
<1>10. Rewritten(d, new, "accountsecrets", f)
  BY <1>1, <1>5, <1>6, <1>8, <1>9 DEF Rewritten
<1>11. Sound(new)
  BY <1>1, <1>10, RewriteKeeps
<1>12. \A s \in new.accountsecrets : \E r \in d.accountsecrets :
          /\ r.user = s.user /\ r.index = s.index
          /\ s.bad = r.bad \/ (s.bad = r.bad + 1 /\ r.user = u /\ r.index = i)
  BY <1>1, <1>2, <1>4, <1>5, <1>8
<1>13. QED
  BY <1>3, <1>11, <1>12

\* An account's time comes.
LEMMA TimeKeeps ==
    ASSUME NEW d, Sound(d), NEW a \in d.accounts, NEW c \in {"expired", "idle"}
    PROVE  Fine(d, [d EXCEPT !.accounts = (@ \ {a}) \cup {[a EXCEPT ![c] = TRUE]}])
<1> DEFINE Accounts == RowsOf["accounts"]
           f == [r \in Accounts |-> IF r = a THEN [a EXCEPT ![c] = TRUE] ELSE r]
           rows == (d["accounts"] \ {a}) \cup {[a EXCEPT ![c] = TRUE]}
           new == WithTable(d, "accounts", rows)
<1>1. "accountsecrets" \in Tables /\ "accounts" \in Tables /\ "accountsecrets" # "accounts"
  BY TablesAre
<1>2. d["accounts"] \subseteq Accounts /\ IsDatabase(d) /\ a \in Accounts
  BY <1>1 DEF Sound, IsDatabase
<1>3. [a EXCEPT ![c] = TRUE] \in Accounts /\ [a EXCEPT ![c] = TRUE].user = a.user
      /\ (Ruler(a) => Ruler([a EXCEPT ![c] = TRUE]))
  <2>1. a \in [user : Users, superuser : BOOLEAN, enabled : BOOLEAN, confirmed : BOOLEAN,
                expired : BOOLEAN, idle : BOOLEAN, text : Texts]
    BY <1>2, RowsAre
  <2>2. [a EXCEPT ![c] = TRUE] \in [user : Users, superuser : BOOLEAN, enabled : BOOLEAN, confirmed : BOOLEAN,
                                    expired : BOOLEAN, idle : BOOLEAN, text : Texts]
    BY <2>1
  <2>3. /\ [a EXCEPT ![c] = TRUE].user = a.user /\ [a EXCEPT ![c] = TRUE].superuser = a.superuser
        /\ [a EXCEPT ![c] = TRUE].enabled = a.enabled
    BY <2>1
  <2>4. QED
    BY <2>2, <2>3, RowsAre DEF Ruler
<1>4. \A r \in Accounts : f[r] \in Accounts /\ f[r].user = r.user /\ (Ruler(r) => Ruler(f[r]))
  BY <1>3
<1>5. \A q : q \in rows <=> \E r \in d["accounts"] : q = f[r]
  BY <1>2
<1>6. f \in [Accounts -> Accounts]
  BY <1>4
<1> HIDE DEF f, rows
<1>7. rows \in SUBSET Accounts
  BY <1>2, <1>4, <1>5
<1>8. IsDatabase(new) /\ \A s \in Tables : new[s] = IF s = "accounts" THEN rows ELSE d[s]
  BY <1>1, <1>2, <1>7, TableChanged
<1> HIDE DEF new
<1>9. \A r \in Accounts : KeepsKeys("accounts", f[r], r)
  BY <1>4, KeysAre, ParentsAre DEF KeepsKeys, Same
<1>10. \E r \in d.accounts : Ruler(f[r])
  BY <1>2, <1>4 DEF Sound, HasRuler
<1>11. Rewritten(d, new, "accounts", f)
  BY <1>1, <1>5, <1>6, <1>8, <1>9, <1>10 DEF Rewritten
<1>12. Sound(new)
  BY <1>1, <1>11, RewriteKeeps
<1>13. SecretsFrom(d, new)
  BY <1>1, <1>8 DEF SecretsFrom
<1>14. QED
  BY <1>12, <1>13 DEF Fine, new, rows, WithTable

(***************************************************************************)
(* Counters, and the clients that add to them.                             *)
(***************************************************************************)
LEMMA ClientsFacts ==
    /\ IsFiniteSet(Clients) /\ Cardinality(Clients) \in Nat
    /\ \A ts, r : /\ IsFiniteSet(Adders(ts, r)) /\ Cardinality(Adders(ts, r)) \in Nat
                  /\ Cardinality(Adders(ts, r)) <= Cardinality(Clients)
<1>1. IsFiniteSet(Clients)
  BY AuthAssumption
<1>2. \A ts, r : Adders(ts, r) \in SUBSET Clients
  BY DEF Adders
<1>3. QED
  BY <1>1, <1>2, FS_Subset, FS_CardinalityType

LEMMA TriesFacts == \A m \in TriesSettings : m \in Nat /\ m >= 2
BY AuthAssumption

LEMMA SecretFacts ==
    ASSUME NEW d, IsDatabase(d), NEW r \in d.accountsecrets
    PROVE  r.bad \in Nat /\ r.user \in Users /\ r.index \in Indexes
<1>1. r \in RowsOf["accountsecrets"]
  BY TablesAre DEF IsDatabase
<1>2. r \in [index : Indexes, user : Users, bad : Nat, expired : BOOLEAN]
  BY <1>1, RowsAre
<1>3. QED
  BY <1>2

LEMMA AddersOfAnother ==
    ASSUME NEW ts \in [Clients -> Tasks], NEW c \in Clients, NEW t, ~Adds(t), NEW r
    PROVE  Adders([ts EXCEPT ![c] = t], r) = Adders(ts, r) \ {c}
BY DEF Adders

LEMMA SumsKept ==
    ASSUME NEW d, NEW e, IsDatabase(d), IsDatabase(e), SecretsFrom(d, e), NEW ts, NEW us,
           \A r : Adders(us, r) \subseteq Adders(ts, r), SumsBounded(d, ts)
    PROVE  SumsBounded(e, us)
<1> SUFFICES ASSUME NEW s \in e.accountsecrets
             PROVE  \E m \in TriesSettings : s.bad + Cardinality(Adders(us, s)) <= m - 2 + Cardinality(Clients)
  BY DEF SumsBounded
<1>1. s.bad \in Nat
  BY SecretFacts
<1>2. Cardinality(Adders(us, s)) <= Cardinality(Adders(ts, s))
  BY ClientsFacts, FS_Subset
<1>3. CASE s.bad = 0
  BY <1>3, ClientsFacts, TriesFacts, AuthAssumption
<1>4. CASE s.bad # 0
  <2>1. PICK r \in d.accountsecrets : r.user = s.user /\ r.index = s.index /\ r.bad = s.bad
    BY <1>4 DEF SecretsFrom
  <2>2. Adders(ts, s) = Adders(ts, r)
    BY <2>1 DEF Adders
  <2>3. PICK m \in TriesSettings : r.bad + Cardinality(Adders(ts, r)) <= m - 2 + Cardinality(Clients)
    BY <2>1 DEF SumsBounded
  <2>4. QED
    BY <1>1, <1>2, <2>1, <2>2, <2>3, ClientsFacts, TriesFacts
<1>5. QED
  BY <1>3, <1>4

\* A client that adds leaves the adders.
LEMMA SumsAdded ==
    ASSUME NEW d, NEW e, IsDatabase(d), IsDatabase(e), NEW ts \in [Clients -> Tasks], SumsBounded(d, ts),
           NEW c \in Clients, Adds(ts[c]), NEW t, ~Adds(t),
           \A s \in e.accountsecrets : \E r \in d.accountsecrets :
               /\ r.user = s.user /\ r.index = s.index
               /\ s.bad = r.bad \/ (s.bad = r.bad + 1 /\ r.user = ts[c].user /\ r.index = ts[c].index)
    PROVE  SumsBounded(e, [ts EXCEPT ![c] = t])
<1> DEFINE us == [ts EXCEPT ![c] = t]
<1> SUFFICES ASSUME NEW s \in e.accountsecrets
             PROVE  \E m \in TriesSettings : s.bad + Cardinality(Adders(us, s)) <= m - 2 + Cardinality(Clients)
  BY DEF SumsBounded
<1>1. PICK r \in d.accountsecrets :
          /\ r.user = s.user /\ r.index = s.index
          /\ s.bad = r.bad \/ (s.bad = r.bad + 1 /\ r.user = ts[c].user /\ r.index = ts[c].index)
  OBVIOUS
<1>2. Adders(us, s) = Adders(ts, s) \ {c}
  BY DEF Adders
<1>3. Adders(ts, s) = Adders(ts, r)
  BY <1>1 DEF Adders
<1>4. PICK m \in TriesSettings : r.bad + Cardinality(Adders(ts, r)) <= m - 2 + Cardinality(Clients)
  BY <1>1 DEF SumsBounded
<1>5. r.bad \in Nat /\ s.bad \in Nat
  BY <1>1, SecretFacts
<1> HIDE DEF us
<1>6. CASE s.bad = r.bad
  <2>1. Cardinality(Adders(us, s)) <= Cardinality(Adders(ts, s))
    BY <1>2, ClientsFacts, FS_Subset
  <2>2. QED
    BY <1>3, <1>4, <1>5, <1>6, <2>1, ClientsFacts, TriesFacts
<1>7. CASE s.bad = r.bad + 1 /\ r.user = ts[c].user /\ r.index = ts[c].index
  <2>1. c \in Adders(ts, s)
    BY <1>1, <1>7 DEF Adders
  <2>2. Cardinality(Adders(us, s)) = Cardinality(Adders(ts, s)) - 1
    BY <1>2, <2>1, ClientsFacts, FS_RemoveElement
  <2>3. QED
    BY <1>3, <1>4, <1>5, <1>7, <2>2, ClientsFacts, TriesFacts
<1>8. QED
  BY <1>1, <1>6, <1>7

\* A client that read a counter below the limit becomes one.
LEMMA SumsRead ==
    ASSUME NEW d, IsDatabase(d), NEW ts \in [Clients -> Tasks], SumsBounded(d, ts), NEW c \in Clients,
           NEW t, ~Adds(ts[c]),
           Adds(t) => /\ t.tries \in TriesSettings
                      /\ \A r \in d.accountsecrets : r.user = t.user /\ r.index = t.index => t.bad = r.bad
    PROVE  SumsBounded(d, [ts EXCEPT ![c] = t])
<1> DEFINE us == [ts EXCEPT ![c] = t]
<1> SUFFICES ASSUME NEW r \in d.accountsecrets
             PROVE  \E m \in TriesSettings : r.bad + Cardinality(Adders(us, r)) <= m - 2 + Cardinality(Clients)
  BY DEF SumsBounded
<1>1. r.bad \in Nat
  BY SecretFacts
<1>2. CASE Adds(t) /\ r.user = t.user /\ r.index = t.index
  <2>1. r.bad + 1 < t.tries /\ t.tries \in TriesSettings
    BY <1>2 DEF Adds
  <2> HIDE DEF us
  <2>2. QED
    BY <1>1, <2>1, ClientsFacts, TriesFacts
<1>3. CASE ~(Adds(t) /\ r.user = t.user /\ r.index = t.index)
  <2>1. Adders(us, r) = Adders(ts, r)
    BY <1>3 DEF Adders
  <2>2. QED
    BY <2>1 DEF SumsBounded
<1>4. QED
  BY <1>2, <1>3

(***************************************************************************)
(* The handlers of a call, by what they write.                             *)
(***************************************************************************)
LEMMA AllFlagsAreFlags == AllFlags \in AccountFlags
BY DEF AllFlags, AccountFlags

LEMMA HandlersKeep ==
    ASSUME Sound(db), NEW me \in Names,
           NEW o \in AccountWrites \cup AccountTextWrites \cup AccountExpirationAndGroupWrites
                       \cup ResetAttemptWrites \cup ApplicationWrites(me) \cup ApplicationTextWrites
                       \cup ApplicationMemberWrites \cup AttribWrites \cup GroupWrites \cup GroupMemberWrites
    PROVE  Fine(db, o.db)
<1>1. CASE o \in AccountWrites
  <2>1. PICK u \in Users :
            \/ \E i \in Indexes, x \in BOOLEAN : o \in accountChangeSecret(db, u, i, x)
            \/ o \in accountRemove(db, u)
            \/ \E x \in BOOLEAN : o \in accountDisable(db, u, x)
    BY <1>1 DEF AccountWrites
  <2>2. QED
    BY <2>1, AllFlagsAreFlags, SecretChanges, AccountSetters, AccountRemoves
<1>2. CASE o \in AccountTextWrites
  <2>1. AllFlags \in AccountFlags
    BY DEF AllFlags, AccountFlags
  <2>2. QED
    BY <1>2, <2>1, AccountSetters DEF AccountTextWrites
<1>3. CASE o \in AccountExpirationAndGroupWrites
  <2>1. PICK u \in Users :
            \/ \E x \in BOOLEAN : o \in accountChangeExpiration(db, u, x)
            \/ \E gs \in SUBSET Groups : o \in accountChangeGroupSet(db, u, gs)
    BY <1>3 DEF AccountExpirationAndGroupWrites
  <2>2. QED
    BY <2>1, AllFlagsAreFlags, AccountSetters, GroupSetChanges
<1>4. CASE o \in ResetAttemptWrites
  BY <1>4, AttemptsReset DEF ResetAttemptWrites
<1>5. CASE o \in ApplicationWrites(me)
  <2>1. PICK p \in Apps : o \in applicationAdd(db, p, me) \/ o \in applicationRemove(db, p)
    BY <1>5 DEF ApplicationWrites
  <2>2. Admin \in Users
    BY AuthAssumption
  <2>3. QED
    BY <2>1, <2>2, ApplicationMethods
<1>6. CASE o \in ApplicationTextWrites
  <2>1. Admin \in Users
    BY AuthAssumption
  <2>2. QED
    BY <1>6, <2>1, ApplicationMethods DEF ApplicationTextWrites
<1>7. CASE o \in ApplicationMemberWrites
  <2>1. PICK p \in Apps, u \in Users :
            \/ o \in applicationAccountAdd(db, p, u) \cup applicationAccountRemove(db, p, u)
            \/ o \in applicationOwnerAdd(db, p, u) \cup applicationOwnerRemove(db, p, u)
    BY <1>7 DEF ApplicationMemberWrites
  <2>2. QED
    BY <2>1, ApplicationMethods
<1>8. CASE o \in AttribWrites
  <2>1. PICK a \in Attribs :
            \/ o \in attribAdd(db, a) \cup attribRemove(db, a)
            \/ \E g \in Groups : o \in attribGroupAdd(db, a, g) \cup attribGroupRemove(db, a, g)
            \/ \E u \in Users : o \in attribAccountAdd(db, a, u) \cup attribAccountRemove(db, a, u)
    BY <1>8 DEF AttribWrites
  <2>2. QED
    BY <2>1, AttribMethods
<1>9. CASE o \in GroupWrites
  <2>1. Admin \in Users
    BY AuthAssumption
  <2>2. QED
    BY <1>9, <2>1, GroupMethods DEF GroupWrites
<1>10. CASE o \in GroupMemberWrites
  <2>1. PICK g \in Groups : \/ o \in groupChangeText(db, g, "new")
                            \/ \E u \in Users : o \in groupAccountAdd(db, g, u) \cup groupAccountRemove(db, g, u)
    BY <1>10 DEF GroupMemberWrites
  <2>2. Admin \in Users
    BY AuthAssumption
  <2>3. QED
    BY <2>1, <2>2, GroupMethods
<1>11. QED
  BY <1>1, <1>2, <1>3, <1>4, <1>5, <1>6, <1>7, <1>8, <1>9, <1>10

\* What the program itself calls.
LEMMA ProgramKeeps ==
    ASSUME Sound(db), NEW o \in ProgramWrites
    PROVE  Fine(db, o.db)
<1>1. \/ \E u \in Users : o \in accountConfirm(db, u)
      \/ \E i \in Indexes, x \in BOOLEAN : o \in passIndexAdd(db, i, x) \cup passIndexModify(db, i, x)
      \/ \E i \in Indexes : o \in passIndexDelete(db, i)
  BY DEF ProgramWrites
<1>2. QED
  BY <1>1, AllFlagsAreFlags, AccountSetters, IndexMethods

(***************************************************************************)
(* The directory a program sets up.                                        *)
(***************************************************************************)
OneEnds(outcomes, d) == (\E o \in outcomes : o.ok) /\ \A o \in outcomes : o.ok => o.db = d

LEMMA DoneIs == ASSUME NEW outcomes, NEW d, OneEnds(outcomes, d) PROVE Done(outcomes) = d
<1> DEFINE o == CHOOSE o \in outcomes : o.ok
<1>1. o \in outcomes /\ o.ok
  BY DEF OneEnds
<1>2. QED
  BY <1>1 DEF OneEnds, Done

LEMMA InsertEnds ==
    ASSUME NEW d, NEW t, NEW row, ~ \E r \in d[t] : Same(r, row, Key[t]), Supported(d, t, row)
    PROVE  OneEnds(Insert(d, t, row), WithTable(d, t, d[t] \cup {row}))
<1> DEFINE e == WithTable(d, t, d[t] \cup {row})
<1>1. Insert(d, t, row) = Ran(d, e)
  BY DEF Insert, WithTable
<1> HIDE DEF e
<1>2. OneEnds(Ran(d, e), e)
  <2>1. [db |-> e, ok |-> TRUE] \in Ran(d, e)
    BY DEF Ran
  <2>2. \A o \in Ran(d, e) : o = [db |-> e, ok |-> TRUE] \/ o = [db |-> d, ok |-> FALSE]
    BY DEF Ran, Failed
  <2>3. QED
    BY <2>1, <2>2 DEF OneEnds
<1>3. QED
  BY <1>1, <1>2 DEF e

LEMMA InitialTables ==
    \E d : /\ Done(applicationAdd(Done(initAccounts(initScheme)), DirApp, Admin)) = d
          /\ d = [t \in Tables |-> d[t]]
          /\ d["accounts"] = {Account(Admin, AllFlags)} /\ d["accountactivationtokens"] = {[user |-> Admin]}
          /\ d["applications"] = {[app |-> DirApp, user |-> Admin, text |-> "old"]}
          /\ d["applicationmanagers"] = {} /\ d["attribsaccounts"] = {}
<1> DEFINE e0 == initScheme
           account == Account(Admin, AllFlags)
           token == [user |-> Admin]
           secret == Secret(Admin, 0, TRUE)
           application == [app |-> DirApp, user |-> Admin, text |-> "old"]
           e1 == WithTable(e0, "accounts", e0["accounts"] \cup {account})
           e2 == WithTable(e1, "accountactivationtokens", e1["accountactivationtokens"] \cup {token})
           e3 == WithTable(e2, "accountsecrets", e2["accountsecrets"] \cup {secret})
           e4 == WithTable(e3, "applications", e3["applications"] \cup {application})
           two == Then(Insert(e0, "accounts", account), LAMBDA e : Insert(e, "accountactivationtokens", token))
<1>1. /\ account.user = Admin /\ token.user = Admin /\ secret.user = Admin /\ secret.index = 0
      /\ application.user = Admin
  BY AllFlagsAreFlags, AccountRow, AuthAssumption DEF Secret
<1>2. /\ e0 = [t \in Tables |-> e0[t]]
      /\ \A t \in Tables : e0[t] = IF t = "secretsindexs" THEN {[index |-> 0, required |-> TRUE]} ELSE {}
  BY TablesAre DEF initScheme
<1>3. initAccounts(e0) = Then(two, LAMBDA e : Insert(e, "accountsecrets", secret))
  BY DEF initAccounts, accountAdd
<1> HIDE DEF e0, account, token, secret
<1>4. e1 = [t \in Tables |-> e1[t]] /\ \A t \in Tables : e1[t] = IF t = "accounts" THEN {account} ELSE e0[t]
  BY <1>2, TablesAre DEF WithTable
<1>5. OneEnds(Insert(e0, "accounts", account), e1)
  <2>1. e0["accounts"] = {}
    BY <1>2, TablesAre
  <2>2. Supported(e0, "accounts", account)
    BY ParentsAre DEF Supported
  <2>3. QED
    BY <2>1, <2>2, InsertEnds
<1> HIDE DEF e1
<1>6. e2 = [t \in Tables |-> e2[t]]
      /\ \A t \in Tables : e2[t] = IF t = "accountactivationtokens" THEN {token} ELSE e1[t]
  BY <1>2, <1>4, TablesAre DEF WithTable
<1>7. OneEnds(Insert(e1, "accountactivationtokens", token), e2)
  <2>1. e1["accountactivationtokens"] = {}
    BY <1>2, <1>4, TablesAre
  <2>2. account \in e1["accounts"] /\ Same(account, token, Key["accounts"])
    BY <1>1, <1>4, TablesAre, KeysAre DEF Same
  <2>3. Supported(e1, "accountactivationtokens", token)
    BY <2>2, ParentsAre DEF Supported
  <2>4. QED
    BY <2>1, <2>3, InsertEnds
<1>8. OneEnds(two, e2)
  BY <1>5, <1>7 DEF OneEnds, Then
<1> HIDE DEF e2, two
<1>9. e3 = [t \in Tables |-> e3[t]]
      /\ \A t \in Tables : e3[t] = IF t = "accountsecrets" THEN {secret} ELSE e2[t]
  <2>1. e2["accountsecrets"] = {}
    BY <1>2, <1>4, <1>6, TablesAre
  <2>2. QED
    BY <1>6, <2>1, TablesAre DEF WithTable
<1>10. OneEnds(Insert(e2, "accountsecrets", secret), e3)
  <2>1. e2["accountsecrets"] = {}
    BY <1>2, <1>4, <1>6, TablesAre
  <2>2. account \in e2["accounts"] /\ Same(account, secret, Key["accounts"])
    BY <1>1, <1>4, <1>6, TablesAre, KeysAre DEF Same
  <2>3. e2["secretsindexs"] = {[index |-> 0, required |-> TRUE]}
    BY <1>2, <1>4, <1>6, TablesAre
  <2>4. \E r \in e2["secretsindexs"] : Same(r, secret, Key["secretsindexs"])
    BY <1>1, <2>3, KeysAre DEF Same
  <2>5. Supported(e2, "accountsecrets", secret)
    BY <2>2, <2>4, ParentsAre DEF Supported
  <2>6. QED
    BY <2>1, <2>5, InsertEnds
<1>11. OneEnds(initAccounts(e0), e3)
  BY <1>3, <1>8, <1>10 DEF OneEnds, Then
<1> HIDE DEF e3, application
<1>12. e4 = [t \in Tables |-> e4[t]]
       /\ \A t \in Tables : e4[t] = IF t = "applications" THEN {application} ELSE e3[t]
  <2>1. e3["applications"] = {}
    BY <1>2, <1>4, <1>6, <1>9, TablesAre
  <2>2. QED
    BY <1>9, <2>1, TablesAre DEF WithTable
<1>13. OneEnds(Insert(e3, "applications", application), e4)
  <2>1. e3["applications"] = {}
    BY <1>2, <1>4, <1>6, <1>9, TablesAre
  <2>2. account \in e3["accounts"] /\ Same(account, application, Key["accounts"])
    BY <1>1, <1>4, <1>6, <1>9, TablesAre, KeysAre DEF Same
  <2>3. Supported(e3, "applications", application)
    BY <2>2, ParentsAre DEF Supported
  <2>4. QED
    BY <2>1, <2>3, InsertEnds
<1>14. Done(applicationAdd(Done(initAccounts(e0)), DirApp, Admin)) = e4
  BY <1>11, <1>13, DoneIs DEF applicationAdd, application
<1>15. /\ e4["accounts"] = {account} /\ e4["accountactivationtokens"] = {token}
       /\ e4["applications"] = {application} /\ e4["applicationmanagers"] = {} /\ e4["attribsaccounts"] = {}
  <2>1. e3["accounts"] = {account} /\ e3["accountactivationtokens"] = {token}
    BY <1>4, <1>6, <1>9, TablesAre
  <2>2. e3["applicationmanagers"] = {} /\ e3["attribsaccounts"] = {}
    BY <1>2, <1>4, <1>6, <1>9, TablesAre
  <2> HIDE DEF e4
  <2>3. QED
    BY <1>12, <2>1, <2>2, TablesAre
<1>16. QED
  BY <1>12, <1>14, <1>15 DEF e0, account, token, application

StaffAccount(u) == Account(u, [AllFlags EXCEPT !.superuser = FALSE])
SecretOf(u, i, bad) == [Secret(u, i, FALSE) EXCEPT !.bad = bad]

LEMMA SecretOfIs ==
    ASSUME NEW u, NEW i, NEW bad
    PROVE  SecretOf(u, i, bad) = [index |-> i, user |-> u, bad |-> bad, expired |-> FALSE]
<1> DEFINE secret == Secret(u, i, FALSE)
<1>1. /\ secret = [c \in {"index", "user", "bad", "expired"} |-> secret[c]]
      /\ secret.index = i /\ secret.user = u /\ secret.expired = FALSE
  BY DEF Secret
<1>2. SecretOf(u, i, bad) = [secret EXCEPT !.bad = bad]
  BY DEF SecretOf
<1> HIDE DEF secret
<1>3. QED
  BY <1>1, <1>2

LEMMA StaffRows ==
    ASSUME NEW u \in Staff
    PROVE  /\ StaffAccount(u) \in RowsOf["accounts"] /\ StaffAccount(u).user = u
           /\ \A i \in Indexes, bad \in Nat :
                  /\ SecretOf(u, i, bad) \in RowsOf["accountsecrets"]
                  /\ SecretOf(u, i, bad) = [index |-> i, user |-> u, bad |-> bad, expired |-> FALSE]
<1>1. u \in Users /\ [AllFlags EXCEPT !.superuser = FALSE] \in AccountFlags
  BY AuthAssumption DEF AllFlags, AccountFlags
<1>2. \A i, bad : SecretOf(u, i, bad) = [index |-> i, user |-> u, bad |-> bad, expired |-> FALSE]
  BY SecretOfIs
<1>3. StaffAccount(u) \in RowsOf["accounts"] /\ StaffAccount(u).user = u
  BY <1>1, AccountRow DEF StaffAccount
<1>4. \A i \in Indexes, bad \in Nat :
         [index |-> i, user |-> u, bad |-> bad, expired |-> FALSE] \in RowsOf["accountsecrets"]
  BY <1>1, RowsAre
<1>5. QED
  BY <1>2, <1>3, <1>4

LEMMA DirectoryTables ==
    ASSUME NEW tries
    PROVE  LET d == Directory(tries) IN
           /\ d = [t \in Tables |-> d[t]]
           /\ \A r : r \in d["accounts"] <=> r = Account(Admin, AllFlags) \/ \E u \in Staff : r = StaffAccount(u)
           /\ d["applications"] = {[app |-> DirApp, user |-> Admin, text |-> "old"]}
           /\ \A r : r \in d["attribs"] <=> \E x \in Rights : r = [app |-> DirApp, attrib |-> x, text |-> "old"]
           /\ d["applicationmanagers"] = {} /\ d["attribsaccounts"] = {}
           /\ \A r : r \in d["applicationusers"] <=> \E u \in Staff \cup {Admin} : r = [app |-> DirApp, user |-> u]
           /\ \A r : r \in d["secretsindexs"] <=> \E i \in Indexes : r = [index |-> i, required |-> TRUE]
           /\ d["accountactivationtokens"] = {[user |-> Admin]}
           /\ \A r : r \in d["accountsecrets"] <=>
                    r = SecretOf(Admin, 0, tries - 1) \/ \E u \in Staff, i \in Indexes : r = SecretOf(u, i, tries - 2)
           /\ d["groups"] = {[group |-> StaffGroup, text |-> "old"]}
           /\ \A r : r \in d["groupsaccounts"] <=> \E u \in Staff : r = [group |-> StaffGroup, user |-> u]
           /\ d["attribsgroups"] = {[app |-> DirApp, attrib |-> Write, group |-> StaffGroup]}
<1> DEFINE rights == {[app |-> DirApp, attrib |-> r, text |-> "old"] : r \in Rights}
           indexes == {[index |-> i, required |-> TRUE] : i \in Indexes}
           groups == {[group |-> StaffGroup, text |-> "old"]}
           members == {[group |-> StaffGroup, user |-> u] : u \in Staff}
           granted == {[app |-> DirApp, attrib |-> Write, group |-> StaffGroup]}
           staff == {Account(u, [AllFlags EXCEPT !.superuser = FALSE]) : u \in Staff}
           secrets == {[Secret(Admin, 0, FALSE) EXCEPT !.bad = tries - 1]}
                        \cup {[Secret(u, i, FALSE) EXCEPT !.bad = tries - 2] : u \in Staff, i \in Indexes}
           users == {[app |-> DirApp, user |-> u] : u \in Staff \cup {Admin}}
           account == Account(Admin, AllFlags)
<1>1. PICK d : /\ Done(applicationAdd(Done(initAccounts(initScheme)), DirApp, Admin)) = d
               /\ d = [t \in Tables |-> d[t]]
               /\ d["accounts"] = {account} /\ d["accountactivationtokens"] = {[user |-> Admin]}
               /\ d["applications"] = {[app |-> DirApp, user |-> Admin, text |-> "old"]}
               /\ d["applicationmanagers"] = {} /\ d["attribsaccounts"] = {}
  BY InitialTables
<1> DEFINE e == [d EXCEPT !.attribs = rights, !.secretsindexs = indexes, !.groups = groups,
                          !.groupsaccounts = members, !.attribsgroups = granted, !.accounts = @ \cup staff,
                          !.accountsecrets = secrets, !.applicationusers = users]
<1>2. Directory(tries) = e
  BY <1>1 DEF Directory
<1>3. /\ \A r : r \in rights <=> \E x \in Rights : r = [app |-> DirApp, attrib |-> x, text |-> "old"]
      /\ \A r : r \in indexes <=> \E i \in Indexes : r = [index |-> i, required |-> TRUE]
      /\ \A r : r \in members <=> \E u \in Staff : r = [group |-> StaffGroup, user |-> u]
      /\ \A r : r \in users <=> \E u \in Staff \cup {Admin} : r = [app |-> DirApp, user |-> u]
  OBVIOUS
<1>4. \A r : r \in staff <=> \E u \in Staff : r = StaffAccount(u)
  BY DEF StaffAccount
<1>5. \A r : r \in secrets <=>
         r = SecretOf(Admin, 0, tries - 1) \/ \E u \in Staff, i \in Indexes : r = SecretOf(u, i, tries - 2)
  BY DEF SecretOf
<1> HIDE DEF rights, indexes, groups, members, granted, staff, secrets, users, account
<1>6. /\ e = [t \in Tables |-> e[t]]
      /\ e["attribs"] = rights /\ e["secretsindexs"] = indexes /\ e["groups"] = groups
      /\ e["groupsaccounts"] = members /\ e["attribsgroups"] = granted
      /\ e["accounts"] = {account} \cup staff /\ e["accountsecrets"] = secrets /\ e["applicationusers"] = users
      /\ e["accountactivationtokens"] = {[user |-> Admin]}
      /\ e["applications"] = {[app |-> DirApp, user |-> Admin, text |-> "old"]}
      /\ e["applicationmanagers"] = {} /\ e["attribsaccounts"] = {}
  BY <1>1, TablesAre
<1> HIDE DEF e
<1>7. QED
  BY <1>2, <1>3, <1>4, <1>5, <1>6 DEF groups, granted, account

LEMMA DirectoryIsSound ==
    ASSUME NEW tries \in Nat, tries >= 2
    PROVE  Sound(Directory(tries)) /\ \A r \in Directory(tries).accountsecrets : r.bad \in {tries - 2, tries - 1}
<1> DEFINE d == Directory(tries)
           secret(u, i, n) == [index |-> i, user |-> u, bad |-> n, expired |-> FALSE]
<1>1. d = [t \in Tables |-> d[t]] /\ d["applicationmanagers"] = {} /\ d["attribsaccounts"] = {}
  BY DirectoryTables
<1>2. \A r : r \in d["accounts"] <=> r = Account(Admin, AllFlags) \/ \E u \in Staff : r = StaffAccount(u)
  BY DirectoryTables
<1>3. d["applications"] = {[app |-> DirApp, user |-> Admin, text |-> "old"]}
  BY DirectoryTables
<1>4. \A r : r \in d["attribs"] <=> \E x \in Rights : r = [app |-> DirApp, attrib |-> x, text |-> "old"]
  BY DirectoryTables
<1>5. \A r : r \in d["applicationusers"] <=> \E u \in Staff \cup {Admin} : r = [app |-> DirApp, user |-> u]
  BY DirectoryTables
<1>6. \A r : r \in d["secretsindexs"] <=> \E i \in Indexes : r = [index |-> i, required |-> TRUE]
  BY DirectoryTables
<1>7. d["accountactivationtokens"] = {[user |-> Admin]} /\ d["groups"] = {[group |-> StaffGroup, text |-> "old"]}
  BY DirectoryTables
<1>8. \A r : r \in d["accountsecrets"] <=>
         r = SecretOf(Admin, 0, tries - 1) \/ \E u \in Staff, i \in Indexes : r = SecretOf(u, i, tries - 2)
  BY DirectoryTables
<1>9. \A r : r \in d["groupsaccounts"] <=> \E u \in Staff : r = [group |-> StaffGroup, user |-> u]
  BY DirectoryTables
<1>10. d["attribsgroups"] = {[app |-> DirApp, attrib |-> Write, group |-> StaffGroup]}
  BY DirectoryTables
<1> HIDE DEF d
<1>11. /\ Admin \in Users /\ Staff \subseteq Users \ {Admin} /\ DirApp \in Apps /\ Write \in Rights
       /\ 0 \in Indexes /\ StaffGroup \in Groups /\ "old" \in Texts
  BY AuthAssumption DEF StaffGroup, Texts
<1>12. /\ Account(Admin, AllFlags) \in RowsOf["accounts"] /\ Account(Admin, AllFlags).user = Admin
       /\ Ruler(Account(Admin, AllFlags))
  BY <1>11, AllFlagsAreFlags, AccountRow DEF Ruler, AllFlags
<1>13. \A r \in d["accountsecrets"] :
          r = secret(Admin, 0, tries - 1) \/ \E u \in Staff, i \in Indexes : r = secret(u, i, tries - 2)
  <2>1. SecretOf(Admin, 0, tries - 1) = secret(Admin, 0, tries - 1)
    BY SecretOfIs
  <2>2. \A u \in Staff, i \in Indexes : SecretOf(u, i, tries - 2) = secret(u, i, tries - 2)
    BY SecretOfIs
  <2> HIDE DEF secret
  <2> SUFFICES ASSUME NEW r \in d["accountsecrets"], r # secret(Admin, 0, tries - 1)
               PROVE  \E u \in Staff, i \in Indexes : r = secret(u, i, tries - 2)
    OBVIOUS
  <2>3. PICK u \in Staff, i \in Indexes : r = SecretOf(u, i, tries - 2)
    BY <1>8, <2>1
  <2>4. QED
    BY <2>2, <2>3
<1>14. \A t \in Tables : d[t] \subseteq RowsOf[t]
  <2>1. d["accounts"] \subseteq RowsOf["accounts"]
    BY <1>2, <1>12, StaffRows
  <2>2. d["accountsecrets"] \subseteq RowsOf["accountsecrets"]
    <3>1. \A u \in Users, i \in Indexes, n \in Nat : secret(u, i, n) \in RowsOf["accountsecrets"]
      BY RowsAre
    <3> HIDE DEF secret
    <3>2. QED
      BY <1>11, <1>13, <3>1
  <2>3. d["applications"] \subseteq RowsOf["applications"] /\ d["attribs"] \subseteq RowsOf["attribs"]
    <3>1. [app |-> DirApp, user |-> Admin, text |-> "old"] \in RowsOf["applications"]
      BY <1>11, RowsAre DEF Names
    <3>2. \A x \in Rights : [app |-> DirApp, attrib |-> x, text |-> "old"] \in RowsOf["attribs"]
      BY <1>11, RowsAre
    <3>3. QED
      BY <1>3, <1>4, <3>1, <3>2
  <2>4. d["applicationusers"] \subseteq RowsOf["applicationusers"]
    BY <1>5, <1>11, RowsAre
  <2>5. d["secretsindexs"] \subseteq RowsOf["secretsindexs"]
    <3>1. \A i \in Indexes : [index |-> i, required |-> TRUE] \in RowsOf["secretsindexs"]
      BY RowsAre
    <3>2. QED
      BY <1>6, <3>1
  <2>6. /\ d["accountactivationtokens"] \subseteq RowsOf["accountactivationtokens"]
        /\ d["groups"] \subseteq RowsOf["groups"] /\ d["attribsgroups"] \subseteq RowsOf["attribsgroups"]
    BY <1>7, <1>10, <1>11, RowsAre
  <2>7. d["groupsaccounts"] \subseteq RowsOf["groupsaccounts"]
    BY <1>9, <1>11, RowsAre
  <2>8. QED
    BY <1>1, <2>1, <2>2, <2>3, <2>4, <2>5, <2>6, <2>7, TablesAre
<1>15. HasRuler(d)
  BY <1>2, <1>12 DEF HasRuler
<1>16. SecretsAreUnique(d)
  <2> SUFFICES ASSUME NEW r \in d["accountsecrets"], NEW s \in d["accountsecrets"],
                      r.user = s.user, r.index = s.index
               PROVE  r = s
    BY DEF SecretsAreUnique
  <2>1. \A u, i, n : secret(u, i, n).user = u /\ secret(u, i, n).index = i
    OBVIOUS
  <2> HIDE DEF secret
  <2>2. ASSUME NEW q \in d["accountsecrets"]
        PROVE  \/ q = secret(Admin, 0, tries - 1) /\ q.user = Admin
               \/ q = secret(q.user, q.index, tries - 2) /\ q.user # Admin
    <3>1. CASE q = secret(Admin, 0, tries - 1)
      BY <2>1, <3>1
    <3>2. CASE q # secret(Admin, 0, tries - 1)
      <4>1. PICK u \in Staff, i \in Indexes : q = secret(u, i, tries - 2)
        BY <1>13, <3>2
      <4>2. q.user = u /\ q.index = i /\ u # Admin
        BY <1>11, <2>1, <4>1
      <4>3. QED
        BY <4>1, <4>2
    <3>3. QED
      BY <3>1, <3>2
  <2>3. QED
    BY <2>2
<1>17. \A r \in d["accountsecrets"] : r.bad \in {tries - 2, tries - 1}
  BY <1>13
<1>18. Integral(d)
  <2>1. \A u \in Staff \cup {Admin} : \E r \in d["accounts"] : r.user = u
    BY <1>2, <1>12, StaffRows
  <2>2. \A t \in {"accounts", "secretsindexs", "groups", "applicationmanagers", "attribsaccounts"} :
           \A r \in d[t] : Supported(d, t, r)
    BY <1>1, ParentsAre DEF Supported
  <2>3. \A r \in d["applications"] : Supported(d, "applications", r)
    BY <1>3, <2>1, ParentsAre, KeysAre DEF Supported, Same
  <2>4. \A r \in d["accountactivationtokens"] : Supported(d, "accountactivationtokens", r)
    BY <1>7, <2>1, ParentsAre, KeysAre DEF Supported, Same
  <2>5. \E r \in d["applications"] : r.app = DirApp
    <3>1. [app |-> DirApp, user |-> Admin, text |-> "old"].app = DirApp
      OBVIOUS
    <3>2. QED
      BY <1>3, <3>1
  <2>6. \A r \in d["attribs"] : Supported(d, "attribs", r)
    <3>1. \A r \in d["attribs"] : r.app = DirApp
      BY <1>4
    <3>2. QED
      BY <2>5, <3>1, ParentsAre, KeysAre DEF Supported, Same
  <2>7. \A r \in d["applicationusers"] : Supported(d, "applicationusers", r)
    <3>1. \A r \in d["applicationusers"] : r.app = DirApp /\ r.user \in Staff \cup {Admin}
      BY <1>5
    <3>2. QED
      BY <2>1, <2>5, <3>1, ParentsAre, KeysAre DEF Supported, Same
  <2>8. \A i \in Indexes : \E r \in d["secretsindexs"] : r.index = i
    <3>1. \A i \in Indexes : [index |-> i, required |-> TRUE] \in d["secretsindexs"]
      BY <1>6
    <3>2. \A i \in Indexes : [index |-> i, required |-> TRUE].index = i
      OBVIOUS
    <3>3. QED
      BY <3>1, <3>2
  <2>9. \A r \in d["accountsecrets"] : Supported(d, "accountsecrets", r)
    <3>1. \A r \in d["accountsecrets"] : r.index \in Indexes /\ r.user \in Staff \cup {Admin}
      BY <1>11, <1>13
    <3>2. QED
      BY <2>1, <2>8, <3>1, ParentsAre, KeysAre DEF Supported, Same
  <2>10. \E r \in d["groups"] : r.group = StaffGroup
    <3>1. [group |-> StaffGroup, text |-> "old"].group = StaffGroup
      OBVIOUS
    <3>2. QED
      BY <1>7, <3>1
  <2>11. \A r \in d["groupsaccounts"] : Supported(d, "groupsaccounts", r)
    <3>1. \A r \in d["groupsaccounts"] : r.group = StaffGroup /\ r.user \in Staff
      BY <1>9
    <3>2. QED
      BY <2>1, <2>10, <3>1, ParentsAre, KeysAre DEF Supported, Same
  <2>12. \E r \in d["attribs"] : r.app = DirApp /\ r.attrib = Write
    <3> DEFINE write == [app |-> DirApp, attrib |-> Write, text |-> "old"]
    <3>1. write.app = DirApp /\ write.attrib = Write
      OBVIOUS
    <3>2. write \in d["attribs"]
      BY <1>4, <1>11
    <3> HIDE DEF write
    <3>3. QED
      BY <3>1, <3>2
  <2>13. \A r \in d["attribsgroups"] : Supported(d, "attribsgroups", r)
    <3>1. \A r \in d["attribsgroups"] : r.app = DirApp /\ r.attrib = Write /\ r.group = StaffGroup
      BY <1>10
    <3>2. QED
      BY <2>10, <2>12, <3>1, ParentsAre, KeysAre DEF Supported, Same
  <2>14. QED
    BY <2>2, <2>3, <2>4, <2>6, <2>7, <2>9, <2>11, <2>13, TablesAre DEF Integral
<1>19. QED
  BY <1>1, <1>14, <1>15, <1>16, <1>17, <1>18 DEF d, Sound, IsDatabase

LEMMA InitIInv == Init => IInv
<1> SUFFICES ASSUME Init PROVE IInv
  OBVIOUS
<1>1. db = Directory(FirstTries)
  BY DEF Init
<1>2. FirstTries \in TriesSettings /\ FirstTries \in Nat /\ FirstTries >= 2
  BY AuthAssumption, TriesFacts
<1>4. Sound(db) /\ \A r \in db.accountsecrets : r.bad \in {FirstTries - 2, FirstTries - 1}
  BY <1>1, <1>2, DirectoryIsSound
<1>5. task = [c \in Clients |-> Idle] /\ task \in [Clients -> Tasks]
  BY DEF Init, Tasks
<1>6. SessionTypes
  BY DEF Init, SessionTypes, NoSession, Names
<1>7. SumsBounded(db, task)
  <2>1. \A r : Adders(task, r) = {}
    BY <1>5 DEF Adders, Adds, Idle
  <2>2. \A r : Cardinality(Adders(task, r)) = 0
    BY <2>1, FS_EmptySet
  <2>3. Cardinality(Clients) >= 1
    BY ClientsFacts, AuthAssumption, FS_EmptySet
  <2>4. ASSUME NEW r \in db.accountsecrets
        PROVE  r.bad + Cardinality(Adders(task, r)) <= FirstTries - 2 + Cardinality(Clients)
    BY <1>2, <1>4, <2>2, <2>3, ClientsFacts
  <2>5. QED
    BY <1>2, <2>4 DEF SumsBounded
<1>8. QED
  BY <1>2, <1>4, <1>5, <1>6, <1>7 DEF IInv, Init

(***************************************************************************)
(* Steps.                                                                  *)
(***************************************************************************)
LEMMA TaskKinds ==
    /\ ~Adds(Idle) /\ Idle \in Tasks /\ [do |-> "run"] \in Tasks /\ ~Adds([do |-> "run"])
    /\ \A t \in Attempts : t \in Tasks
    /\ \A t \in Tasks : t.do \in {"accept", "count", "reset", "master", "change"} => t \in Attempts
    /\ \A t \in Tasks : t.do \in {"add", "flags"} => t.user \in Users /\ t.flags \in AccountFlags
    /\ \A x \in {"add", "flags"}, u \in Users, flags \in AccountFlags :
          LET t == [do |-> x, user |-> u, flags |-> flags] IN t \in Tasks /\ ~Adds(t)
<1>1. Idle.do = "idle" /\ [do |-> "run"].do = "run"
  BY DEF Idle
<1>2. \A t \in Tasks : \/ t = Idle \/ t \in [do : {"run"}]
                       \/ t \in [do : {"add", "flags"}, user : Users, flags : AccountFlags] \/ t \in Attempts
  BY DEF Tasks
<1>3. \A t \in Attempts : t.do \in {"accept", "count", "reset", "master", "change"}
  BY DEF Attempts
<1>4. QED
  BY <1>1, <1>2, <1>3 DEF Adds, Tasks

\* Every step but those that read a counter, and those that add to one.
LEMMA QuietStep ==
    ASSUME IInv, Fine(db, db'), maxTries' \in TriesSettings, SessionTypes', task' \in [Clients -> Tasks],
           \A r : Adders(task', r) \subseteq Adders(task, r)
    PROVE  IInv'
<1>1. Sound(db') /\ SecretsFrom(db, db') /\ IsDatabase(db) /\ IsDatabase(db')
  BY DEF IInv, Fine, Sound
<1>2. ForeignKeys => SumsBounded(db', task')
  BY <1>1, SumsKept DEF IInv
<1>3. QED
  BY <1>1, <1>2 DEF IInv

LEMMA QuietTask ==
    ASSUME IInv, NEW c \in Clients, NEW t \in Tasks, ~Adds(t), task' = [task EXCEPT ![c] = t]
    PROVE  task' \in [Clients -> Tasks] /\ \A r : Adders(task', r) \subseteq Adders(task, r)
<1>1. task \in [Clients -> Tasks]
  BY DEF IInv
<1>2. task' \in [Clients -> Tasks]
  BY <1>1
<1>3. \A r : Adders(task', r) \subseteq Adders(task, r)
  BY <1>1 DEF Adders
<1>4. QED
  BY <1>2, <1>3

LEMMA Registered ==
    ASSUME NEW s, DOMAIN s = DOMAIN NoSession, s.user \in Names, NEW u \in Users, NEW i, NEW reason
    PROVE  LET r == registerPersistentAuthentication(s, u, i, reason) IN
           DOMAIN r = DOMAIN NoSession /\ r.user \in Names
<1>1. DOMAIN NoSession = {"user", "status", "needed"}
  BY DEF NoSession
<1>2. QED
  BY <1>1 DEF registerPersistentAuthentication, Names

LEMMA AfterAttempt ==
    ASSUME SessionTypes, task \in [Clients -> Tasks], NEW c \in Clients, NEW t \in Attempts, After(c, t)
    PROVE  SessionTypes' /\ \E n \in Tasks : ~Adds(n) /\ task' = [task EXCEPT ![c] = n]
<1>1. t.user \in Users
  BY DEF Attempts
<1>2. CASE t.change = {}
  <2>1. \E n \in Tasks : ~Adds(n) /\ task' = [task EXCEPT ![c] = n]
    BY <1>2, TaskKinds DEF After
  <2> DEFINE first == registerPersistentAuthentication(NoSession, t.user, 0, t.reason)
             further == registerPersistentAuthentication(session[c], t.user, t.index, t.reason)
  <2>2. DOMAIN NoSession = {"user", "status", "needed"} /\ NoSession.user \in Names
    BY DEF NoSession, Names
  <2>3. DOMAIN first = DOMAIN NoSession /\ first.user \in Names
    BY <1>1, <2>2, Registered
  <2>4. DOMAIN further = DOMAIN NoSession /\ further.user \in Names
    BY <1>1, Registered DEF SessionTypes
  <2>5. PICK s : /\ s \in {[first EXCEPT !.needed = t.needed], further, session[c]}
                 /\ session' = [session EXCEPT ![c] = s]
    BY <1>2 DEF After
  <2> HIDE DEF first, further
  <2>6. DOMAIN s = DOMAIN NoSession /\ s.user \in Names
    BY <2>2, <2>3, <2>4, <2>5 DEF SessionTypes
  <2>7. QED
    BY <2>1, <2>5, <2>6 DEF SessionTypes
<1>3. CASE t.change # {}
  <2> DEFINE changing == [t EXCEPT !.do = "change"]
             master == [t EXCEPT !.do = "master"]
  <2>1. changing \in Attempts /\ changing.do = "change" /\ master \in Attempts /\ master.do = "master"
    BY DEF Attempts
  <2>2. \E n \in {changing, master, Idle} : task' = [task EXCEPT ![c] = n]
    BY <1>3 DEF After
  <2> HIDE DEF changing, master
  <2>3. \A n \in {changing, master, Idle} : n \in Tasks /\ ~Adds(n)
    BY <2>1, TaskKinds DEF Adds
  <2>4. SessionTypes'
    BY <1>3 DEF After, SessionTypes
  <2>5. QED
    BY <2>2, <2>3, <2>4
<1>4. QED
  BY <1>2, <1>3

\* What authenticate reads of a secret is its row, if there is one.
LEMMA SecretRead ==
    ASSUME NEW d, IsDatabase(d), NEW u \in Users, NEW i \in Indexes
    PROVE  /\ retrieveSecret(d, u, i).secret.bad \in Nat
           /\ ForeignKeys /\ Integral(d) /\ SecretsAreUnique(d) =>
                 \A r \in d.accountsecrets :
                     r.user = u /\ r.index = i => retrieveSecret(d, u, i).secret.bad = r.bad
<1> DEFINE key == [user |-> u, index |-> i]
           rows == Rows(d, "accountsecrets", key)
           found == accountExist(d, u)
           secret == retrieveSecret(d, u, i).secret
<1>1. \A r : r \in rows <=> r \in d.accountsecrets /\ r.user = u /\ r.index = i
  BY DEF Rows, Matches
<1>2. secret = IF found /\ rows # {} THEN CHOOSE r \in rows : TRUE ELSE NoSecret
  <2> DEFINE seen == IF found THEN rows ELSE {}
  <2>1. secret = IF seen # {} THEN CHOOSE r \in seen : TRUE ELSE NoSecret
    BY DEF retrieveSecret
  <2> HIDE DEF secret, found, rows
  <2>2. CASE found
    BY <2>1, <2>2
  <2>3. CASE ~found
    BY <2>1, <2>3
  <2>4. QED
    BY <2>2, <2>3
<1> HIDE DEF rows, found, secret
<1>3. secret.bad \in Nat
  BY <1>1, <1>2, SecretFacts DEF NoSecret
<1>4. ASSUME Integral(d), SecretsAreUnique(d), NEW r \in d.accountsecrets, r.user = u, r.index = i
      PROVE  secret.bad = r.bad
  <2>1. Supported(d, "accountsecrets", r)
    BY <1>4, TablesAre DEF Integral
  <2>2. PICK a \in d["accounts"] : Same(a, r, Key["accounts"])
    BY <2>1, ParentsAre DEF Supported
  <2>3. a.user = u
    BY <1>4, <2>2, KeysAre DEF Same
  <2>4. found
    BY <2>3 DEF found, accountExist, Has, Rows, Matches
  <2>5. r \in rows /\ \A s \in rows : s = r
    BY <1>1, <1>4 DEF SecretsAreUnique
  <2>6. secret = r
    BY <1>2, <2>4, <2>5
  <2>7. QED
    BY <2>6
<1>5. QED
  BY <1>3, <1>4 DEF secret

LEMMA ReasonsAre ==
    ASSUME NEW u, NEW i, NEW right, NEW first
    PROVE  Authentication(u, i, right, first).reason \in Reasons
<1>1. \A x : validateStoredSecret(x, right) \in Reasons
  BY DEF validateStoredSecret, Reasons, Authenticated
<1>2. QED
  BY <1>1 DEF Authentication, Reasons

LEMMA AuthenticateKeeps ==
    ASSUME IInv, NEW c \in Clients, ~Adds(task[c]), NEW u \in Users, NEW i \in Indexes, NEW right \in BOOLEAN,
           NEW change \in Changes, Authenticate(c, u, i, right, change)
    PROVE  IInv'
<1> DEFINE a == Authentication(u, i, right, change = {})
           needed == IF a.reason \in Authenticated /\ i = 0 /\ change = {}
                     THEN accountPassIndexesUsedForLogin(db, u) ELSE {}
           bad == retrieveSecret(db, u, i).secret.bad
           t == [do |-> IF a.reason \in Authenticated THEN "accept" ELSE "count", user |-> u, index |-> i,
                 reason |-> a.reason, change |-> change, needed |-> needed, bad |-> bad, tries |-> maxTries]
<1>1. /\ IF a.goesOn THEN task' = [task EXCEPT ![c] = t] /\ UNCHANGED session ELSE After(c, t)
      /\ UNCHANGED <<db, maxTries, calls>>
  BY DEF Authenticate
<1>2. Sound(db) /\ IsDatabase(db) /\ task \in [Clients -> Tasks] /\ SessionTypes /\ maxTries \in TriesSettings
  BY DEF IInv, Sound
<1>3. a.reason \in Reasons
  BY ReasonsAre
<1>4. bad \in Nat /\ (ForeignKeys => \A r \in db.accountsecrets : r.user = u /\ r.index = i => bad = r.bad)
  BY <1>2, SecretRead DEF Sound
<1>5. needed \subseteq Indexes
  BY <1>2, SecretFacts DEF accountPassIndexesUsedForLogin, passIndexesUsedByAccount, Rows
<1> HIDE DEF a, bad, needed
<1>6. t \in Attempts
  BY <1>2, <1>3, <1>4, <1>5 DEF Attempts
<1>7. t.bad = bad /\ t.tries = maxTries /\ t.user = u /\ t.index = i
  OBVIOUS
<1> HIDE DEF t
<1>8. CASE a.goesOn
  <2>1. task' = [task EXCEPT ![c] = t] /\ session' = session /\ db' = db /\ maxTries' = maxTries
    BY <1>1, <1>8
  <2>2. task' \in [Clients -> Tasks]
    BY <1>2, <1>6, <2>1, TaskKinds
  <2>3. SessionTypes'
    BY <1>2, <2>1 DEF SessionTypes
  <2>4. ForeignKeys => SumsBounded(db, task')
    BY <1>2, <1>4, <1>7, <2>1, SumsRead DEF IInv
  <2>5. QED
    BY <1>2, <2>1, <2>2, <2>3, <2>4 DEF IInv
<1>9. CASE ~a.goesOn
  <2>1. After(c, t) /\ db' = db /\ maxTries' = maxTries
    BY <1>1, <1>9
  <2>2. SessionTypes' /\ task' \in [Clients -> Tasks] /\ \A r : Adders(task', r) \subseteq Adders(task, r)
    BY <1>2, <1>6, <2>1, AfterAttempt, QuietTask
  <2>3. Fine(db, db') /\ maxTries' \in TriesSettings
    BY <1>2, <2>1, Stays
  <2>4. QED
    BY <2>2, <2>3, QuietStep
<1>10. QED
  BY <1>8, <1>9

LEMMA CountAttemptKeeps == ASSUME IInv, NEW c \in Clients, CountAttempt(c) PROVE IInv'
<1> DEFINE t == task[c]
<1>1. /\ t.do = "count" /\ After(c, t) /\ maxTries' = maxTries
      /\ db' \in IF t.bad + 1 >= t.tries THEN {o.db : o \in accountDisable(db, t.user, TRUE)}
                 ELSE incrementBadAttempts(db, t.user, t.index)
  BY DEF CountAttempt
<1>2. Sound(db) /\ IsDatabase(db) /\ task \in [Clients -> Tasks] /\ SessionTypes /\ maxTries \in TriesSettings
  BY DEF IInv, Sound
<1>3. t \in Attempts
  BY <1>1, <1>2, TaskKinds
<1>4. t.user \in Users /\ t.bad \in Nat /\ t.tries \in Nat
  BY <1>3, TriesFacts DEF Attempts
<1>5. PICK n \in Tasks : ~Adds(n) /\ task' = [task EXCEPT ![c] = n] /\ SessionTypes'
  BY <1>1, <1>2, <1>3, AfterAttempt
<1>6. task' \in [Clients -> Tasks] /\ \A r : Adders(task', r) \subseteq Adders(task, r)
  BY <1>5, QuietTask
<1>7. CASE t.bad + 1 >= t.tries
  <2>1. PICK o \in accountDisable(db, t.user, TRUE) : db' = o.db
    BY <1>1, <1>7
  <2>2. Fine(db, db')
    BY <1>2, <1>4, <2>1, AllFlagsAreFlags, AccountSetters
  <2>3. QED
    BY <1>1, <1>2, <1>5, <1>6, <2>2, QuietStep
<1>8. CASE t.bad + 1 < t.tries
  <2>1. db' \in incrementBadAttempts(db, t.user, t.index)
    <3>1. ~(t.bad + 1 >= t.tries)
      BY <1>4, <1>8
    <3>2. QED
      BY <1>1, <3>1, Zenon
  <2>2. /\ Sound(db')
        /\ \A s \in db'.accountsecrets : \E r \in db.accountsecrets :
               /\ r.user = s.user /\ r.index = s.index
               /\ s.bad = r.bad \/ (s.bad = r.bad + 1 /\ r.user = t.user /\ r.index = t.index)
    BY <1>2, <2>1, AttemptsIncremented
  <2>3. Adds(task[c]) /\ IsDatabase(db')
    BY <1>1, <1>8, <2>2 DEF Adds, Sound
  <2>4. ForeignKeys => SumsBounded(db', [task EXCEPT ![c] = n])
    BY <1>2, <1>5, <2>2, <2>3, SumsAdded DEF IInv
  <2>5. QED
    BY <1>1, <1>2, <1>5, <1>6, <2>2, <2>4 DEF IInv
<1>9. QED
  BY <1>4, <1>7, <1>8

LEMMA AttemptSteps ==
    ASSUME IInv, NEW c \in Clients,
           Login(c) \/ accountChangeAuthenticatedSecret(c) \/ TryMaster(c) \/ AcceptAttempt(c) \/ ResetAttempts(c)
             \/ ChangeSecret(c)
    PROVE  IInv'
<1>1. Sound(db) /\ task \in [Clients -> Tasks] /\ SessionTypes /\ maxTries \in TriesSettings
  BY DEF IInv, Sound
<1>2. ~Adds(Idle) /\ 0 \in Indexes /\ {} \in Changes /\ \A i \in Indexes : {i} \in Changes
  BY TaskKinds, AuthAssumption DEF Changes
<1>3. CASE Login(c)
  <2>1. task[c] = Idle /\ \E u \in Users, i \in Indexes, right \in BOOLEAN : Authenticate(c, u, i, right, {})
    BY <1>3 DEF Login
  <2>2. QED
    BY <1>2, <2>1, AuthenticateKeeps
<1>4. CASE accountChangeAuthenticatedSecret(c)
  <2>1. /\ task[c] = Idle /\ session[c].user # ""
        /\ \E i \in Indexes, right \in BOOLEAN : Authenticate(c, session[c].user, i, right, {i})
    BY <1>4 DEF accountChangeAuthenticatedSecret
  <2>2. session[c].user \in Users
    BY <1>1, <2>1 DEF SessionTypes, Names
  <2>3. QED
    BY <1>2, <2>1, <2>2, AuthenticateKeeps
<1>5. CASE TryMaster(c)
  <2>1. /\ task[c].do = "master"
        /\ \E right \in BOOLEAN : Authenticate(c, task[c].user, 0, right, task[c].change)
    BY <1>5 DEF TryMaster
  <2>2. task[c].user \in Users /\ task[c].change \in Changes /\ ~Adds(task[c])
    BY <1>1, <2>1, TaskKinds DEF Attempts, Adds
  <2>3. QED
    BY <1>2, <2>1, <2>2, AuthenticateKeeps
<1>6. CASE AcceptAttempt(c)
  <2> DEFINE n == [task[c] EXCEPT !.do = "reset"]
  <2>1. /\ task[c].do = "accept" /\ db' \in updateLastLogin(db, task[c].user) /\ task' = [task EXCEPT ![c] = n]
        /\ maxTries' = maxTries /\ session' = session
    BY <1>6 DEF AcceptAttempt
  <2>2. task[c] \in Attempts
    BY <1>1, <2>1, TaskKinds
  <2>3. task[c].user \in Users /\ n \in Attempts /\ n.do = "reset"
    BY <2>2 DEF Attempts
  <2> HIDE DEF n
  <2>4. n \in Tasks /\ ~Adds(n)
    BY <2>3, TaskKinds DEF Adds
  <2>5. Fine(db, db')
    BY <1>1, <2>1, <2>3, AllFlagsAreFlags, AccountSetters
  <2>6. task' \in [Clients -> Tasks] /\ \A r : Adders(task', r) \subseteq Adders(task, r)
    BY <2>1, <2>4, QuietTask
  <2>7. SessionTypes'
    BY <1>1, <2>1 DEF SessionTypes
  <2>8. QED
    BY <1>1, <2>1, <2>5, <2>6, <2>7, QuietStep
<1>7. CASE ResetAttempts(c)
  <2>1. /\ task[c].do = "reset" /\ db' \in resetBadAttempts(db, task[c].user, task[c].index)
        /\ After(c, task[c]) /\ maxTries' = maxTries
    BY <1>7 DEF ResetAttempts
  <2>2. task[c] \in Attempts
    BY <1>1, <2>1, TaskKinds
  <2>3. SessionTypes' /\ task' \in [Clients -> Tasks] /\ \A r : Adders(task', r) \subseteq Adders(task, r)
    BY <1>1, <2>1, <2>2, AfterAttempt, QuietTask
  <2>4. Fine(db, db')
    BY <1>1, <2>1, AttemptsReset
  <2>5. QED
    BY <1>1, <2>1, <2>3, <2>4, QuietStep
<1>8. CASE ChangeSecret(c)
  <2>1. /\ task[c].do = "change" /\ task' = [task EXCEPT ![c] = Idle]
        /\ \E i \in task[c].change : \E o \in accountChangeSecret(db, task[c].user, i, FALSE) : db' = o.db
        /\ maxTries' = maxTries /\ session' = session
    BY <1>8 DEF ChangeSecret
  <2>2. task[c].user \in Users /\ task[c].change \subseteq Indexes
    BY <1>1, <2>1, TaskKinds DEF Attempts, Changes
  <2>3. Fine(db, db')
    BY <1>1, <2>1, <2>2, SecretChanges
  <2>4. task' \in [Clients -> Tasks] /\ \A r : Adders(task', r) \subseteq Adders(task, r)
    BY <1>2, <2>1, TaskKinds, QuietTask
  <2>5. SessionTypes'
    BY <1>1, <2>1 DEF SessionTypes
  <2>6. QED
    BY <1>1, <2>1, <2>3, <2>4, <2>5, QuietStep
<1>9. QED
  BY <1>3, <1>4, <1>5, <1>6, <1>7, <1>8

LEMMA CallSteps ==
    ASSUME IInv, NEW c \in Clients,
           Logout(c) \/ Validate(c) \/ RunMethod(c) \/ RunAccountAdd(c) \/ AddAccount(c) \/ RunBasicInfo(c)
             \/ ChangeAttribs(c)
    PROVE  IInv'
<1>1. Sound(db) /\ task \in [Clients -> Tasks] /\ SessionTypes /\ maxTries \in TriesSettings
  BY DEF IInv, Sound
<1>2. ASSUME task' = [task EXCEPT ![c] = Idle]
      PROVE  task' \in [Clients -> Tasks] /\ \A r : Adders(task', r) \subseteq Adders(task, r)
  BY <1>2, TaskKinds, QuietTask
<1>3. ASSUME session' = session PROVE SessionTypes'
  BY <1>1, <1>3 DEF SessionTypes
<1>4. ASSUME db' = db PROVE Fine(db, db')
  BY <1>1, <1>4, Stays
<1>5. CASE Logout(c)
  <2>1. session' = [session EXCEPT ![c] = NoSession] /\ task' = task /\ db' = db /\ maxTries' = maxTries
    BY <1>5 DEF Logout
  <2>2. SessionTypes'
    BY <1>1, <2>1 DEF SessionTypes, NoSession, Names
  <2>3. QED
    BY <1>1, <1>4, <2>1, <2>2, QuietStep
<1>6. CASE Validate(c)
  <2>1. /\ task' = [task EXCEPT ![c] = [do |-> "run"]]
        /\ db' = db /\ maxTries' = maxTries /\ session' = session
    BY <1>6 DEF Validate
  <2>2. task' \in [Clients -> Tasks] /\ \A r : Adders(task', r) \subseteq Adders(task, r)
    BY <2>1, TaskKinds, QuietTask
  <2>3. QED
    BY <1>1, <1>3, <1>4, <2>1, <2>2, QuietStep
<1>7. CASE RunMethod(c)
  <2>1. task' = [task EXCEPT ![c] = Idle] /\ maxTries' = maxTries /\ session' = session
    BY <1>7 DEF RunMethod
  <2>2. session[c].user \in Names
    BY <1>1 DEF SessionTypes
  <2>3. PICK o \in AccountWrites \cup AccountTextWrites \cup AccountExpirationAndGroupWrites
                     \cup ResetAttemptWrites \cup ApplicationWrites(session[c].user) \cup ApplicationTextWrites
                     \cup ApplicationMemberWrites \cup AttribWrites \cup GroupWrites \cup GroupMemberWrites :
               db' = o.db
    BY <1>7 DEF RunMethod
  <2>4. Fine(db, db')
    BY <1>1, <2>2, <2>3, HandlersKeep
  <2>5. QED
    BY <1>1, <1>2, <1>3, <2>1, <2>4, QuietStep
<1>8. CASE RunAccountAdd(c)
  <2>1. PICK u \in Users, flags \in AccountFlags : task' = [task EXCEPT ![c] = [do |-> "add", user |-> u, flags |-> flags]]
    BY <1>8 DEF RunAccountAdd
  <2>2. db' = db /\ maxTries' = maxTries /\ session' = session
    BY <1>8 DEF RunAccountAdd
  <2>3. task' \in [Clients -> Tasks] /\ \A r : Adders(task', r) \subseteq Adders(task, r)
    BY <2>1, TaskKinds, QuietTask
  <2>4. QED
    BY <1>1, <1>3, <1>4, <2>2, <2>3, QuietStep
<1>9. CASE AddAccount(c)
  <2>1. /\ task[c].do = "add" /\ task' = [task EXCEPT ![c] = Idle] /\ maxTries' = maxTries /\ session' = session
        /\ \E o \in accountAdd(db, task[c].user, task[c].flags) : db' = o.db
    BY <1>9 DEF AddAccount
  <2>2. task[c].user \in Users /\ task[c].flags \in AccountFlags
    BY <1>1, <2>1, TaskKinds
  <2>3. Fine(db, db')
    BY <1>1, <2>1, <2>2, AccountAdds
  <2>4. QED
    BY <1>1, <1>2, <1>3, <2>1, <2>3, QuietStep
<1>10. CASE RunBasicInfo(c)
  <2>1. PICK u \in Users, flags \in AccountFlags : \E o \in accountChangeText(db, u, "new") :
             /\ db' = o.db
             /\ task' = [task EXCEPT ![c] = IF o.ok THEN [do |-> "flags", user |-> u, flags |-> flags] ELSE Idle]
    BY <1>10 DEF RunBasicInfo
  <2>2. maxTries' = maxTries /\ session' = session
    BY <1>10 DEF RunBasicInfo
  <2>3. Fine(db, db')
    <3>1. \A o \in accountChangeText(db, u, "new") : Fine(db, o.db)
      BY <1>1, AccountSetters
    <3>2. QED
      BY <2>1, <3>1
  <2>4. \E n \in Tasks : ~Adds(n) /\ task' = [task EXCEPT ![c] = n]
    BY <2>1, TaskKinds
  <2>5. task' \in [Clients -> Tasks] /\ \A r : Adders(task', r) \subseteq Adders(task, r)
    BY <2>4, QuietTask
  <2>6. QED
    BY <1>1, <1>3, <2>2, <2>3, <2>5, QuietStep
<1>11. CASE ChangeAttribs(c)
  <2>1. /\ task[c].do = "flags" /\ task' = [task EXCEPT ![c] = Idle] /\ maxTries' = maxTries /\ session' = session
        /\ \E o \in accountChangeAttribs(db, task[c].user, task[c].flags) : db' = o.db
    BY <1>11 DEF ChangeAttribs
  <2>2. task[c].user \in Users /\ task[c].flags \in AccountFlags
    BY <1>1, <2>1, TaskKinds
  <2>3. Fine(db, db')
    BY <1>1, <2>1, <2>2, AccountSetters
  <2>4. QED
    BY <1>1, <1>2, <1>3, <2>1, <2>3, QuietStep
<1>12. QED
  BY <1>5, <1>6, <1>7, <1>8, <1>9, <1>10, <1>11

LEMMA ProgramSteps ==
    ASSUME IInv, setBAuthPolicyMaxTries \/ ProgramCalls \/ TimePasses
    PROVE  IInv'
<1>1. Sound(db) /\ task \in [Clients -> Tasks] /\ SessionTypes /\ maxTries \in TriesSettings
  BY DEF IInv, Sound
<1>2. task' = task /\ session' = session
  BY DEF setBAuthPolicyMaxTries, ProgramCalls, TimePasses
<1>3. SessionTypes'
  BY <1>1, <1>2 DEF SessionTypes
<1>4. maxTries' \in TriesSettings
  BY <1>1 DEF setBAuthPolicyMaxTries, ProgramCalls, TimePasses
<1>5. Fine(db, db')
  <2>1. CASE setBAuthPolicyMaxTries
    BY <1>1, <2>1, Stays DEF setBAuthPolicyMaxTries
  <2>2. CASE ProgramCalls
    <3>1. PICK o \in ProgramWrites : db' = o.db
      BY <2>2 DEF ProgramCalls
    <3>2. QED
      BY <1>1, <3>1, ProgramKeeps
  <2>3. CASE TimePasses
    <3>1. PICK a \in db.accounts, c \in {"expired", "idle"} :
                 db' = [db EXCEPT !.accounts = (@ \ {a}) \cup {[a EXCEPT ![c] = TRUE]}]
      BY <2>3 DEF TimePasses
    <3>2. QED
      BY <1>1, <3>1, TimeKeeps
  <2>4. QED
    BY <2>1, <2>2, <2>3
<1>6. QED
  BY <1>1, <1>2, <1>3, <1>4, <1>5, QuietStep

LEMMA StepIInv == IInv /\ [Next]_vars => IInv'
<1> SUFFICES ASSUME IInv, [Next]_vars PROVE IInv'
  OBVIOUS
<1>1. CASE Next
  BY <1>1, CountAttemptKeeps, AttemptSteps, CallSteps, ProgramSteps DEF Next
<1>2. CASE UNCHANGED vars
  <2>1. db' = db /\ maxTries' = maxTries /\ session' = session /\ task' = task
    BY <1>2 DEF vars
  <2>2. QED
    BY <2>1 DEF IInv, SessionTypes
<1>3. QED
  BY <1>1, <1>2

\* The directory is sound, and counters are bounded by what may still be added to them.
THEOREM Invariance == Spec => []IInv
BY InitIInv, StepIInv, PTL DEF Spec

(***************************************************************************)
(* What the queries of a directory without loose references answer.        *)
(***************************************************************************)
IsWhole(d) == IsDatabase(d) /\ Integral(d)

LEMMA RightsRead ==
    ASSUME NEW d, NEW a \in Attribs
    PROVE  /\ \A u : accountValidateDirectAttribute(d, u, a) <=>
                       \E r \in d.attribsaccounts : r.app = a.app /\ r.attrib = a.attrib /\ r.user = u
           /\ \A g : groupValidateAttribute(d, g, a) <=>
                       \E r \in d.attribsgroups : r.app = a.app /\ r.attrib = a.attrib /\ r.group = g
           /\ \A u : a \in accountDirectAttribs(d, u) <=>
                       \E r \in d.attribsaccounts : r.app = a.app /\ r.attrib = a.attrib /\ r.user = u
           /\ \A g : a \in groupAttribs(d, g) <=>
                       \E r \in d.attribsgroups : r.app = a.app /\ r.attrib = a.attrib /\ r.group = g
           /\ attribExist(d, a) <=> \E r \in d.attribs : r.app = a.app /\ r.attrib = a.attrib
<1>1. /\ \A x : With(a, [user |-> x]) = [app |-> a.app, attrib |-> a.attrib, user |-> x]
      /\ \A x : With(a, [group |-> x]) = [app |-> a.app, attrib |-> a.attrib, group |-> x]
      /\ a = [app |-> a.app, attrib |-> a.attrib]
  BY DEF With, Attribs
<1>2. /\ \A r, x : Matches(r, With(a, [user |-> x])) <=> r.app = a.app /\ r.attrib = a.attrib /\ r.user = x
      /\ \A r, x : Matches(r, With(a, [group |-> x])) <=> r.app = a.app /\ r.attrib = a.attrib /\ r.group = x
      /\ \A r : Matches(r, a) <=> r.app = a.app /\ r.attrib = a.attrib
      /\ \A r, x : Matches(r, [user |-> x]) <=> r.user = x
      /\ \A r, x : Matches(r, [group |-> x]) <=> r.group = x
  <2>1. ASSUME NEW r, NEW x PROVE Matches(r, With(a, [user |-> x])) <=> r.app = a.app /\ r.attrib = a.attrib /\ r.user = x
    <3> DEFINE k == [app |-> a.app, attrib |-> a.attrib, user |-> x]
    <3>1. DOMAIN k = {"app", "attrib", "user"} /\ k.app = a.app /\ k.attrib = a.attrib /\ k.user = x
      OBVIOUS
    <3>2. With(a, [user |-> x]) = k
      BY <1>1
    <3> HIDE DEF k
    <3>3. QED
      BY <3>1, <3>2 DEF Matches
  <2>2. ASSUME NEW r, NEW x PROVE Matches(r, With(a, [group |-> x])) <=> r.app = a.app /\ r.attrib = a.attrib /\ r.group = x
    <3> DEFINE k == [app |-> a.app, attrib |-> a.attrib, group |-> x]
    <3>1. DOMAIN k = {"app", "attrib", "group"} /\ k.app = a.app /\ k.attrib = a.attrib /\ k.group = x
      OBVIOUS
    <3>2. With(a, [group |-> x]) = k
      BY <1>1
    <3> HIDE DEF k
    <3>3. QED
      BY <3>1, <3>2 DEF Matches
  <2>3. DOMAIN a = {"app", "attrib"}
    BY <1>1
  <2>4. \A r : Matches(r, a) <=> r.app = a.app /\ r.attrib = a.attrib
    BY <2>3 DEF Matches
  <2>5. \A r, x : (Matches(r, [user |-> x]) <=> r.user = x) /\ (Matches(r, [group |-> x]) <=> r.group = x)
    BY DEF Matches
  <2>6. QED
    BY <2>1, <2>2, <2>4, <2>5
<1>3. \A u : accountValidateDirectAttribute(d, u, a) <=>
                \E r \in d.attribsaccounts : r.app = a.app /\ r.attrib = a.attrib /\ r.user = u
  BY <1>2 DEF accountValidateDirectAttribute, Has, Rows
<1>4. \A g : groupValidateAttribute(d, g, a) <=>
                \E r \in d.attribsgroups : r.app = a.app /\ r.attrib = a.attrib /\ r.group = g
  BY <1>2 DEF groupValidateAttribute, Has, Rows
<1>5. \A u : a \in accountDirectAttribs(d, u) <=>
                \E r \in d.attribsaccounts : r.app = a.app /\ r.attrib = a.attrib /\ r.user = u
  <2> TAKE u
  <2>1. a \in accountDirectAttribs(d, u) <=>
           \E r \in d.attribsaccounts : r.user = u /\ a = [app |-> r.app, attrib |-> r.attrib]
    BY <1>2 DEF accountDirectAttribs, Rows
  <2>2. \A x, y : a = [app |-> x, attrib |-> y] <=> x = a.app /\ y = a.attrib
    BY <1>1
  <2>3. QED
    BY <2>1, <2>2
<1>6. \A g : a \in groupAttribs(d, g) <=>
                \E r \in d.attribsgroups : r.app = a.app /\ r.attrib = a.attrib /\ r.group = g
  <2> TAKE g
  <2>1. a \in groupAttribs(d, g) <=>
           \E r \in d.attribsgroups : r.group = g /\ a = [app |-> r.app, attrib |-> r.attrib]
    BY <1>2 DEF groupAttribs, Rows
  <2>2. \A x, y : a = [app |-> x, attrib |-> y] <=> x = a.app /\ y = a.attrib
    BY <1>1
  <2>3. QED
    BY <2>1, <2>2
<1>7. attribExist(d, a) <=> \E r \in d.attribs : r.app = a.app /\ r.attrib = a.attrib
  BY <1>2 DEF attribExist, Has, Rows
<1>8. QED
  BY <1>3, <1>4, <1>5, <1>6, <1>7

\* Lists and memberships, by the rows they come from.
LEMMA Members ==
    ASSUME NEW d
    PROVE  /\ \A u : u \in accountsList(d) <=> \E r \in d.accounts : r.user = u
           /\ \A u : accountExist(d, u) <=> \E r \in d.accounts : r.user = u
           /\ \A p : p \in applicationList(d) <=> \E r \in d.applications : r.app = p
           /\ \A p : applicationExist(d, p) <=> \E r \in d.applications : r.app = p
           /\ \A g : g \in groupsList(d) <=> \E r \in d.groups : r.group = g
           /\ \A g : groupExist(d, g) <=> \E r \in d.groups : r.group = g
           /\ \A u, g : g \in accountGroups(d, u) <=> \E r \in d.groupsaccounts : r.user = u /\ r.group = g
           /\ \A u, g : u \in groupAccounts(d, g) <=> \E r \in d.groupsaccounts : r.user = u /\ r.group = g
<1>1. /\ \A r, x : Matches(r, [user |-> x]) <=> r.user = x
      /\ \A r, x : Matches(r, [group |-> x]) <=> r.group = x
      /\ \A r, x : Matches(r, [app |-> x]) <=> r.app = x
  BY DEF Matches
<1>2. \A u : u \in accountsList(d) <=> \E r \in d.accounts : r.user = u
  BY DEF accountsList
<1>3. \A u : accountExist(d, u) <=> \E r \in d.accounts : r.user = u
  BY <1>1 DEF accountExist, Has, Rows
<1>4. \A p : p \in applicationList(d) <=> \E r \in d.applications : r.app = p
  BY DEF applicationList
<1>5. \A p : applicationExist(d, p) <=> \E r \in d.applications : r.app = p
  BY <1>1 DEF applicationExist, Has, Rows
<1>6. \A g : g \in groupsList(d) <=> \E r \in d.groups : r.group = g
  BY DEF groupsList
<1>7. \A g : groupExist(d, g) <=> \E r \in d.groups : r.group = g
  BY <1>1 DEF groupExist, Has, Rows
<1>8. \A u, g : g \in accountGroups(d, u) <=> \E r \in d.groupsaccounts : r.user = u /\ r.group = g
  BY <1>1 DEF accountGroups, Rows
<1>9. \A u, g : u \in groupAccounts(d, g) <=> \E r \in d.groupsaccounts : r.user = u /\ r.group = g
  BY <1>1 DEF groupAccounts, Rows
<1>10. QED
  BY <1>2, <1>3, <1>4, <1>5, <1>6, <1>7, <1>8, <1>9

\* What the rows of each table refer to exists.
LEMMA References ==
    ASSUME NEW d, Integral(d)
    PROVE  /\ \A r \in d.attribs : \E s \in d.applications : s.app = r.app
           /\ \A r \in d.groupsaccounts : /\ \E s \in d.groups : s.group = r.group
                                          /\ \E s \in d.accounts : s.user = r.user
           /\ \A r \in d.attribsgroups : /\ \E s \in d.attribs : s.app = r.app /\ s.attrib = r.attrib
                                         /\ \E s \in d.groups : s.group = r.group
           /\ \A r \in d.attribsaccounts : /\ \E s \in d.attribs : s.app = r.app /\ s.attrib = r.attrib
                                           /\ \E s \in d.accounts : s.user = r.user
           /\ \A r \in d.applicationusers \cup d.applicationmanagers :
                  (\E s \in d.accounts : s.user = r.user) /\ \E s \in d.applications : s.app = r.app
<1>1. ASSUME NEW t \in Tables, NEW p \in Parents[t]
      PROVE  \A r \in d[t] : \E s \in d[p] : Same(s, r, Key[p])
  BY DEF Integral, Supported
<1>2. \A s, r : /\ Same(s, r, Key["applications"]) => s.app = r.app
                /\ Same(s, r, Key["accounts"]) => s.user = r.user
                /\ Same(s, r, Key["groups"]) => s.group = r.group
                /\ Same(s, r, Key["attribs"]) => s.app = r.app /\ s.attrib = r.attrib
  BY KeysAre DEF Same
<1>3. \A r \in d["attribs"] : \E s \in d["applications"] : s.app = r.app
  <2>1. "attribs" \in Tables /\ "applications" \in Parents["attribs"]
    BY TablesAre, ParentsAre
  <2>2. \A r \in d["attribs"] : \E s \in d["applications"] : Same(s, r, Key["applications"])
    BY <1>1, <2>1
  <2>3. QED
    BY <1>2, <2>2
<1>4. \A r \in d["groupsaccounts"] : /\ \E s \in d["groups"] : s.group = r.group
                                     /\ \E s \in d["accounts"] : s.user = r.user
  <2>1. "groupsaccounts" \in Tables /\ {"groups", "accounts"} \subseteq Parents["groupsaccounts"]
    BY TablesAre, ParentsAre
  <2>2. \A r \in d["groupsaccounts"] : \E s \in d["groups"] : Same(s, r, Key["groups"])
    BY <1>1, <2>1
  <2>3. \A r \in d["groupsaccounts"] : \E s \in d["accounts"] : Same(s, r, Key["accounts"])
    BY <1>1, <2>1
  <2>4. QED
    BY <1>2, <2>2, <2>3
<1>5. \A r \in d["attribsgroups"] : /\ \E s \in d["attribs"] : s.app = r.app /\ s.attrib = r.attrib
                                    /\ \E s \in d["groups"] : s.group = r.group
  <2>1. "attribsgroups" \in Tables /\ {"attribs", "groups"} \subseteq Parents["attribsgroups"]
    BY TablesAre, ParentsAre
  <2>2. \A r \in d["attribsgroups"] : \E s \in d["attribs"] : Same(s, r, Key["attribs"])
    BY <1>1, <2>1
  <2>3. \A r \in d["attribsgroups"] : \E s \in d["groups"] : Same(s, r, Key["groups"])
    BY <1>1, <2>1
  <2>4. QED
    BY <1>2, <2>2, <2>3
<1>6. \A r \in d["attribsaccounts"] : /\ \E s \in d["attribs"] : s.app = r.app /\ s.attrib = r.attrib
                                      /\ \E s \in d["accounts"] : s.user = r.user
  <2>1. "attribsaccounts" \in Tables /\ {"attribs", "accounts"} \subseteq Parents["attribsaccounts"]
    BY TablesAre, ParentsAre
  <2>2. \A r \in d["attribsaccounts"] : \E s \in d["attribs"] : Same(s, r, Key["attribs"])
    BY <1>1, <2>1
  <2>3. \A r \in d["attribsaccounts"] : \E s \in d["accounts"] : Same(s, r, Key["accounts"])
    BY <1>1, <2>1
  <2>4. QED
    BY <1>2, <2>2, <2>3
<1>7. \A t \in {"applicationusers", "applicationmanagers"} : \A r \in d[t] :
         (\E s \in d["accounts"] : s.user = r.user) /\ \E s \in d["applications"] : s.app = r.app
  <2>1. \A t \in {"applicationusers", "applicationmanagers"} :
           t \in Tables /\ {"accounts", "applications"} \subseteq Parents[t]
    BY TablesAre, ParentsAre
  <2>2. \A t \in {"applicationusers", "applicationmanagers"} : \A r \in d[t] : \E s \in d["accounts"] : Same(s, r, Key["accounts"])
    BY <1>1, <2>1
  <2>3. \A t \in {"applicationusers", "applicationmanagers"} : \A r \in d[t] : \E s \in d["applications"] : Same(s, r, Key["applications"])
    BY <1>1, <2>1
  <2>4. QED
    BY <1>2, <2>2, <2>3
<1>8. QED
  BY <1>3, <1>4, <1>5, <1>6, <1>7

LEMMA GrantsAreUsable ==
    ASSUME NEW d, NEW u, NEW a \in Attribs
    PROVE  accountValidateAttribute(d, u, a) <=> a \in accountUsableAttribs(d, u)
<1>1. a \in accountUsableAttribs(d, u) <=>
         a \in accountDirectAttribs(d, u) \/ \E g \in accountGroups(d, u) : a \in groupAttribs(d, g)
  BY DEF accountUsableAttribs
<1>2. QED
  BY <1>1, RightsRead DEF accountValidateAttribute

LEMMA GrantsAreOfTheLiving ==
    ASSUME NEW d, Integral(d), NEW u, NEW a \in Attribs, accountValidateAttribute(d, u, a)
    PROVE  accountExist(d, u) /\ attribExist(d, a) /\ applicationExist(d, a.app)
<1>1. (\E r \in d.accounts : r.user = u) /\ \E r \in d.attribs : r.app = a.app /\ r.attrib = a.attrib
  <2>1. CASE accountValidateDirectAttribute(d, u, a)
    <3>1. PICK r \in d.attribsaccounts : r.app = a.app /\ r.attrib = a.attrib /\ r.user = u
      BY <2>1, RightsRead
    <3>2. QED
      BY <3>1, References
  <2>2. CASE \E g \in accountGroups(d, u) : groupValidateAttribute(d, g, a)
    <3>1. PICK g \in accountGroups(d, u), r \in d.attribsgroups : r.app = a.app /\ r.attrib = a.attrib /\ r.group = g
      BY <2>2, RightsRead
    <3>2. PICK s \in d.groupsaccounts : s.user = u /\ s.group = g
      BY <3>1, Members
    <3>3. QED
      BY <3>1, <3>2, References
  <2>3. QED
    BY <2>1, <2>2 DEF accountValidateAttribute
<1>2. QED
  BY <1>1, RightsRead, Members, References

(***************************************************************************)
(* The pages of an administrator.                                          *)
(***************************************************************************)
LEMMA MoreMembers ==
    ASSUME NEW d
    PROVE  /\ \A u, p : p \in accountApplications(d, u) <=> \E r \in d.applicationusers : r.user = u /\ r.app = p
           /\ \A u, p : u \in applicationAccounts(d, p) <=> \E r \in d.applicationusers : r.user = u /\ r.app = p
           /\ \A u, p : applicationValidateAccount(d, p, u) <=>
                           \E r \in d.applicationusers : r.user = u /\ r.app = p
           /\ \A u, p : u \in applicationOwners(d, p) <=>
                           \E r \in d.applicationmanagers : r.user = u /\ r.app = p
           /\ \A u, p : applicationValidateOwner(d, p, u) <=>
                           \E r \in d.applicationmanagers : r.user = u /\ r.app = p
           /\ \A u, i : i \in passIndexesUsedByAccount(d, u) <=>
                           \E r \in d.accountsecrets : r.user = u /\ r.index = i
<1>1. /\ \A r, x : Matches(r, [user |-> x]) <=> r.user = x
      /\ \A r, x : Matches(r, [app |-> x]) <=> r.app = x
      /\ \A r, x, y : Matches(r, [user |-> x, app |-> y]) <=> r.user = x /\ r.app = y
  BY DEF Matches
<1>2. \A u, p : p \in accountApplications(d, u) <=> \E r \in d.applicationusers : r.user = u /\ r.app = p
  BY <1>1 DEF accountApplications, Rows
<1>3. \A u, p : u \in applicationAccounts(d, p) <=> \E r \in d.applicationusers : r.user = u /\ r.app = p
  BY <1>1 DEF applicationAccounts, Rows
<1>4. \A u, p : applicationValidateAccount(d, p, u) <=> \E r \in d.applicationusers : r.user = u /\ r.app = p
  BY <1>1 DEF applicationValidateAccount, Has, Rows
<1>5. \A u, p : u \in applicationOwners(d, p) <=> \E r \in d.applicationmanagers : r.user = u /\ r.app = p
  BY <1>1 DEF applicationOwners, Rows
<1>6. \A u, p : applicationValidateOwner(d, p, u) <=> \E r \in d.applicationmanagers : r.user = u /\ r.app = p
  BY <1>1 DEF applicationValidateOwner, Has, Rows
<1>7. \A u, i : i \in passIndexesUsedByAccount(d, u) <=> \E r \in d.accountsecrets : r.user = u /\ r.index = i
  BY <1>1 DEF passIndexesUsedByAccount, Rows
<1>8. QED
  BY <1>2, <1>3, <1>4, <1>5, <1>6, <1>7

\* Attributes that queries list are attributes.
LEMMA AttribsListed ==
    ASSUME NEW d, IsDatabase(d)
    PROVE  /\ \A u : accountDirectAttribs(d, u) \subseteq Attribs /\ accountUsableAttribs(d, u) \subseteq Attribs
           /\ \A g : groupAttribs(d, g) \subseteq Attribs
           /\ \A p : attribsList(d, p) \subseteq Attribs
           /\ \A p : \A a \in Attribs : a \in attribsList(d, p) <=>
                         a.app = p /\ \E r \in d.attribs : r.app = a.app /\ r.attrib = a.attrib
<1>1. /\ d["attribs"] \subseteq RowsOf["attribs"] /\ d["attribsgroups"] \subseteq RowsOf["attribsgroups"]
      /\ d["attribsaccounts"] \subseteq RowsOf["attribsaccounts"]
  BY TablesAre DEF IsDatabase
<1>2. /\ \A r \in RowsOf["attribs"] : [app |-> r.app, attrib |-> r.attrib] \in Attribs
      /\ \A r \in RowsOf["attribsgroups"] : [app |-> r.app, attrib |-> r.attrib] \in Attribs
      /\ \A r \in RowsOf["attribsaccounts"] : [app |-> r.app, attrib |-> r.attrib] \in Attribs
  BY RowsAre DEF Attribs
<1>3. \A u : accountDirectAttribs(d, u) \subseteq Attribs
  BY <1>1, <1>2 DEF accountDirectAttribs, Rows
<1>4. \A g : groupAttribs(d, g) \subseteq Attribs
  BY <1>1, <1>2 DEF groupAttribs, Rows
<1>5. \A p : attribsList(d, p) \subseteq Attribs
  BY <1>1, <1>2 DEF attribsList, Rows
<1>6. \A u : accountUsableAttribs(d, u) \subseteq Attribs
  BY <1>3, <1>4 DEF accountUsableAttribs
<1>7. ASSUME NEW p, NEW a \in Attribs
      PROVE  a \in attribsList(d, p) <=> a.app = p /\ \E r \in d.attribs : r.app = a.app /\ r.attrib = a.attrib
  <2>1. \A r : Matches(r, [app |-> p]) <=> r.app = p
    BY DEF Matches
  <2>2. a \in attribsList(d, p) <=> \E r \in d.attribs : r.app = p /\ a = [app |-> r.app, attrib |-> r.attrib]
    BY <2>1 DEF attribsList, Rows
  <2>3. \A x, y : a = [app |-> x, attrib |-> y] <=> x = a.app /\ y = a.attrib
    BY DEF Attribs
  <2>4. QED
    BY <2>2, <2>3
<1>8. QED
  BY <1>3, <1>4, <1>5, <1>6, <1>7

LEMMA AccountPage ==
    ASSUME IsDatabase(db), Integral(db), NEW u \in accountsList(db)
    PROVE  AccountPageAgrees(u)
<1> DEFINE page == accountBasicInfo(u)
           lists == AccountLists(u)
           answers == AccountAnswers(u)
           secrets == getAccountAllSecretsPublicData(u)
           direct == accountDirectAttribs(db, u)
           mine == accountApplications(db, u)
<1>1. page.groups \cup page.groupsLeft = GroupAnswers(StaffGroup).groupsList
  <2>1. page.groups = accountGroups(db, u) /\ page.groupsLeft = groupsList(db) \ accountGroups(db, u)
    BY DEF accountBasicInfo
  <2>2. GroupAnswers(StaffGroup).groupsList = groupsList(db)
    BY DEF GroupAnswers
  <2>3. accountGroups(db, u) \subseteq groupsList(db)
    BY Members, References
  <2> HIDE DEF page
  <2>4. QED
    BY <2>1, <2>2, <2>3
<1>2. /\ DOMAIN page.applications = mine /\ page.applicationsLeft = applicationList(db) \ mine
      /\ \A p \in mine : LET app == page.applications[p] IN
             /\ app.directAttribs = Of(direct, p)
             /\ app.directAttribsLeft = attribsList(db, p) \ direct
  BY DEF accountBasicInfo
<1>3. DOMAIN page.applications \cup page.applicationsLeft = {r.app : r \in applicationsBasicInfoSearch(db)}
  <2>1. mine \subseteq applicationList(db)
    BY Members, MoreMembers, References
  <2>2. {r.app : r \in applicationsBasicInfoSearch(db)} = applicationList(db)
    BY DEF applicationsBasicInfoSearch, applicationList
  <2> HIDE DEF page, mine
  <2>3. QED
    BY <1>2, <2>1, <2>2
<1>4. ASSUME NEW p \in DOMAIN page.applications
      PROVE  LET app == page.applications[p] IN
             /\ u \in applicationBasicInfo(p).accounts
             /\ app.directAttribs \cup app.directAttribsLeft = applicationBasicInfo(p).attribs
  <2>1. p \in mine
    BY <1>2, <1>4
  <2>2. applicationBasicInfo(p).accounts = applicationAccounts(db, p) /\ applicationBasicInfo(p).attribs = attribsList(db, p)
    BY DEF applicationBasicInfo
  <2>3. u \in applicationAccounts(db, p)
    <3>1. PICK r \in db.applicationusers : r.user = u /\ r.app = p
      BY <2>1, MoreMembers
    <3>2. QED
      BY <3>1, MoreMembers
  <2>4. Of(direct, p) \subseteq attribsList(db, p)
    <3> SUFFICES ASSUME NEW a \in direct, a.app = p PROVE a \in attribsList(db, p)
      BY DEF Of
    <3>1. a \in Attribs
      BY AttribsListed
    <3>2. \E r \in db.attribsaccounts : r.app = a.app /\ r.attrib = a.attrib /\ r.user = u
      <4>1. a \in accountDirectAttribs(db, u)
        OBVIOUS
      <4>2. \A x : a \in accountDirectAttribs(db, x) <=>
                     \E r \in db.attribsaccounts : r.app = a.app /\ r.attrib = a.attrib /\ r.user = x
        BY <3>1, RightsRead
      <4> HIDE DEF direct
      <4>3. QED
        BY <4>1, <4>2
    <3>3. \E r \in db.attribs : r.app = a.app /\ r.attrib = a.attrib
      BY <3>2, References
    <3>4. QED
      BY <3>1, <3>3, AttribsListed
  <2>5. \A a \in attribsList(db, p) : a.app = p
    BY AttribsListed
  <2>6. Of(direct, p) \cup (attribsList(db, p) \ direct) = attribsList(db, p)
    BY <2>4, <2>5 DEF Of
  <2> HIDE DEF page, mine, direct
  <2>7. QED
    BY <1>2, <2>1, <2>2, <2>3, <2>6
<1>5. \A g \in lists.groups : u \in groupBasicInfo(g).accounts
  BY Members DEF AccountLists, groupBasicInfo
<1>6. answers.validate = lists.usableAttribs
  <2>1. answers.validate = {a \in Attribs : accountValidateAttribute(db, u, a)}
    BY DEF AccountAnswers
  <2>2. lists.usableAttribs = accountUsableAttribs(db, u)
    BY DEF AccountLists
  <2> HIDE DEF answers, lists
  <2>3. QED
    BY <2>1, <2>2, GrantsAreUsable, AttribsListed
<1>7. \E r \in lists.search : /\ r.user = u /\ r.enabled # AccountFlagAnswers(u).disabled
                              /\ r.confirmed = page.flags.confirmed
  <2> DEFINE rows == Rows(db, "accounts", [user |-> u])
             r == CHOOSE x \in rows : TRUE
  <2>1. rows # {} /\ \A x : x \in rows <=> x \in db.accounts /\ x.user = u
    BY Members DEF Rows, Matches
  <2>2. r \in rows
    BY <2>1
  <2>3. Has(db, "accounts", [user |-> u])
    BY <2>1 DEF Has
  <2>4. \A c, default : Column(db, "accounts", [user |-> u], c, default) = r[c]
    BY <2>3 DEF Column
  <2> HIDE DEF rows, r
  <2>5. r \in db.accounts /\ r.user = u
    BY <2>1, <2>2
  <2>6. r.enabled \in BOOLEAN /\ r.confirmed \in BOOLEAN
    <3>1. r \in RowsOf["accounts"]
      BY <2>5, TablesAre DEF IsDatabase
    <3>2. QED
      BY <3>1, RowsAre
  <2>7. AccountFlagAnswers(u).disabled = ~r["enabled"]
    BY <2>4 DEF AccountFlagAnswers, isAccountDisabled
  <2>8. page.flags.confirmed = r["confirmed"]
    BY <2>4 DEF accountBasicInfo, accountAttribs
  <2>9. lists.search = db.accounts
    BY DEF AccountLists, accountsBasicInfoSearch
  <2> HIDE DEF page, lists
  <2>10. QED
    BY <2>5, <2>6, <2>7, <2>8, <2>9
<1>8. \A i \in passIndexesUsedByAccount(db, u) : i \in DOMAIN secrets /\ ~secrets[i].nul
  <2> SUFFICES ASSUME NEW i \in passIndexesUsedByAccount(db, u)
               PROVE  i \in DOMAIN secrets /\ ~secrets[i].nul
    OBVIOUS
  <2>1. accountExist(db, u)
    BY Members
  <2>2. PICK r \in db.accountsecrets : r.user = u /\ r.index = i
    BY MoreMembers
  <2>3. r \in Rows(db, "accountsecrets", [user |-> u, index |-> i])
    BY <2>2 DEF Rows, Matches
  <2>4. retrieveSecret(db, u, i).indexFound
    BY <2>1, <2>3 DEF retrieveSecret
  <2>5. i \in DOMAIN secrets /\ secrets[i].nul = ~retrieveSecret(db, u, i).indexFound
    BY DEF getAccountAllSecretsPublicData
  <2> HIDE DEF secrets
  <2>6. QED
    BY <2>4, <2>5
<1> HIDE DEF mine, direct
<1>9. QED
  BY <1>1, <1>3, <1>4, <1>5, <1>6, <1>7, <1>8 DEF AccountPageAgrees

LEMMA GroupPage ==
    ASSUME IsDatabase(db), Integral(db), NEW g \in groupsList(db)
    PROVE  GroupPageAgrees(g)
<1> DEFINE page == groupBasicInfo(g)
           answers == GroupAnswers(g)
           mine == groupAttribs(db, g)
<1>1. page.accounts \subseteq accountsList(db)
  BY Members, References DEF groupBasicInfo
<1>2. DOMAIN page.applications \cup page.leftApplicationsList \subseteq applicationList(db)
  <2>1. DOMAIN page.applications = {a.app : a \in mine} /\ page.leftApplicationsList \subseteq applicationList(db)
    BY DEF groupBasicInfo
  <2>2. ASSUME NEW a \in mine PROVE a.app \in applicationList(db)
    <3>1. a \in Attribs
      BY AttribsListed
    <3>2. PICK r \in db.attribsgroups : r.app = a.app /\ r.attrib = a.attrib /\ r.group = g
      BY <3>1, RightsRead
    <3>3. PICK s \in db.attribs : s.app = r.app
      BY References
    <3>4. QED
      BY <3>2, <3>3, Members, References
  <2> HIDE DEF page, mine
  <2>3. QED
    BY <2>1, <2>2
<1>3. answers.exists
  BY Members DEF GroupAnswers
<1>4. answers.attribs = mine /\ answers.validate = {a \in Attribs : groupValidateAttribute(db, g, a)}
  BY DEF GroupAnswers
<1>5. mine = {a \in Attribs : groupValidateAttribute(db, g, a)}
  <2>1. mine \subseteq Attribs
    BY AttribsListed
  <2>2. ASSUME NEW a \in Attribs PROVE a \in mine <=> groupValidateAttribute(db, g, a)
    BY RightsRead
  <2> HIDE DEF mine
  <2>3. QED
    BY <2>1, <2>2
<1>6. ASSUME NEW a \in mine PROVE g \in AttribAnswers(a).groups /\ attribText(db, a) # ""
  <2>1. a \in Attribs
    BY AttribsListed
  <2>2. PICK r \in db.attribsgroups : r.app = a.app /\ r.attrib = a.attrib /\ r.group = g
    BY <2>1, RightsRead
  <2>3. DOMAIN a = {"app", "attrib"}
    BY <2>1 DEF Attribs
  <2>4. g \in attribGroups(db, a)
    <3>1. r \in Rows(db, "attribsgroups", a)
      BY <2>2, <2>3 DEF Rows, Matches
    <3>2. QED
      BY <2>2, <3>1 DEF attribGroups
  <2>5. PICK s \in db.attribs : s.app = a.app /\ s.attrib = a.attrib
    BY <2>2, References
  <2> DEFINE rows == Rows(db, "attribs", a)
             q == CHOOSE x \in rows : TRUE
  <2>6. s \in rows /\ rows \subseteq db["attribs"]
    BY <2>3, <2>5 DEF Rows, Matches
  <2>7. q \in rows
    BY <2>6
  <2>8. attribText(db, a) = q["text"]
    BY <2>6 DEF attribText, Column, Has
  <2> HIDE DEF rows, q
  <2>9. q.text \in Texts
    <3>1. q \in RowsOf["attribs"]
      BY <2>6, <2>7, TablesAre DEF IsDatabase
    <3>2. QED
      BY <3>1, RowsAre
  <2>10. attribText(db, a) # ""
    BY <2>8, <2>9 DEF Texts
  <2>11. QED
    BY <2>4, <2>10 DEF AttribAnswers
<1> HIDE DEF mine
<1>7. QED
  BY <1>1, <1>2, <1>3, <1>4, <1>5, <1>6 DEF GroupPageAgrees

LEMMA ApplicationPage ==
    ASSUME IsDatabase(db), Integral(db), NEW p \in applicationList(db), NEW u \in Users
    PROVE  ApplicationAnswersAgree(p, u)
<1> DEFINE answers == ApplicationAnswers(p, u)
<1>1. /\ answers.owners = applicationOwners(db, p) /\ answers.accounts = applicationAccounts(db, p)
      /\ answers.isOwner = applicationValidateOwner(db, p, u) /\ answers.isUser = applicationValidateAccount(db, p, u)
      /\ answers.applicationsOf = accountApplications(db, u)
  BY DEF ApplicationAnswers
<1> HIDE DEF answers
<1>2. answers.owners \cup answers.accounts \subseteq accountsList(db)
  BY <1>1, Members, MoreMembers, References
<1>3. (answers.isOwner <=> u \in answers.owners) /\ (answers.isUser <=> p \in answers.applicationsOf)
  <2>1. applicationValidateOwner(db, p, u) <=> u \in applicationOwners(db, p)
    BY MoreMembers
  <2>2. applicationValidateAccount(db, p, u) <=> p \in accountApplications(db, u)
    BY MoreMembers
  <2>3. QED
    BY <1>1, <2>1, <2>2
<1>4. ASSUME NEW a \in attribsList(db, p) PROVE AttribAnswers(a).accounts \subseteq accountsList(db)
  <2>1. AttribAnswers(a).accounts = attribAccounts(db, a)
    BY DEF AttribAnswers
  <2>2. \A x \in attribAccounts(db, a) : \E r \in db.attribsaccounts : r.user = x
    BY DEF attribAccounts, Rows
  <2>3. QED
    BY <2>1, <2>2, Members, References
<1>5. QED
  BY <1>2, <1>3, <1>4 DEF answers, ApplicationAnswersAgree

(***************************************************************************)
(* The theorems.                                                           *)
(***************************************************************************)

\* Whatever clients and the program do, in any order, whichever statements fail
\* and whether or not the database enforces its foreign keys: an account that
\* is a superuser and enabled remains.  Each of the methods looks for another
\* one and writes in one section of the lock.
THEOREM SuperUserStays == Spec => []SuperUserRemains
<1>1. IInv => SuperUserRemains
  BY DEF IInv, Sound, HasRuler, Ruler, SuperUserRemains
<1>2. QED
  BY <1>1, Invariance, PTL

\* With foreign keys the counter of wrong attempts passes the limit by no more
\* than the clients that read it before it got there: each of them adds one at
\* most, and they were counted when they read it (IInv's sum).
THEOREM AttemptsStayBounded == ASSUME ForeignKeys PROVE Spec => []AttemptsBounded
<1>1. ASSUME IInv PROVE AttemptsBounded
  <2>1. SumsBounded(db, task) /\ IsDatabase(db)
    BY <1>1 DEF IInv, Sound
  <2>2. ASSUME NEW r \in db.accountsecrets
        PROVE  \E m \in TriesSettings : r.bad <= m - 2 + Cardinality(Clients)
    <3>1. r.bad \in Nat
      BY <2>1, SecretFacts
    <3>2. PICK m \in TriesSettings : r.bad + Cardinality(Adders(task, r)) <= m - 2 + Cardinality(Clients)
      BY <2>1 DEF SumsBounded
    <3>3. r.bad <= m - 2 + Cardinality(Clients)
      BY <3>1, <3>2, ClientsFacts, TriesFacts
    <3>4. QED
      BY <3>3
  <2>3. QED
    BY <2>2 DEF AttemptsBounded
<1>2. QED
  BY <1>1, Invariance, PTL

\* With foreign keys a right is granted only to an account that exists, on an
\* attribute and an application that exist, and shows among the usable ones:
\* ON DELETE CASCADE reaches every table in three rounds, and no statement
\* that inserts or updates leaves a row without those it refers to.
THEOREM RightsStayOfTheLiving == ASSUME ForeignKeys PROVE Spec => []RightsAreOfTheLiving
<1>1. IInv => RightsAreOfTheLiving
  BY GrantsAreUsable, GrantsAreOfTheLiving DEF IInv, Sound, RightsAreOfTheLiving
<1>2. QED
  BY <1>1, Invariance, PTL

\* With foreign keys what an administrator sees of an account, a group and an
\* application agrees with every other query, whatever was removed meanwhile.
THEOREM PagesStayInAgreement == ASSUME ForeignKeys PROVE Spec => []PagesAgree
<1>1. IInv => PagesAgree
  BY AccountPage, GroupPage, ApplicationPage DEF IInv, Sound, PagesAgree
<1>2. QED
  BY <1>1, Invariance, PTL
================================================================================

------------------------------ MODULE AuthStore ------------------------------
(***************************************************************************)
(* The directory of accounts, applications, attributes, groups and secrets *)
(* that Manager_DB keeps in a database (src/Auth/mdz_auth_db).             *)
(*                                                                         *)
(* A database is one record of tables, a table a set of rows.  Every       *)
(* method of Manager_DB is an operator on the database: a query is its     *)
(* result, a change the set of its outcomes [db, ok], since a statement    *)
(* may fail and the methods that run several of them use no transaction.   *)
(* The text columns of a row (names, mail, descriptions, keys) behave      *)
(* alike and are one column here.                                          *)
(***************************************************************************)
EXTENDS Naturals, FiniteSets

CONSTANTS
    ForeignKeys,      \* whether the database enforces the foreign keys
    StatementsFail    \* whether a statement may fail for its own reasons

ASSUME StoreAssumption == ForeignKeys \in BOOLEAN /\ StatementsFail \in BOOLEAN

(***************************************************************************)
(* The schema: the columns of each table that are unique together, and the *)
(* tables its rows refer to by the key of those.  A reference is ON DELETE *)
(* CASCADE.  accountlogins and accountmanagers, which nothing reads, are   *)
(* left out.                                                               *)
(***************************************************************************)
Key == [accounts |-> {"user"}, applications |-> {"app"}, attribs |-> {"app", "attrib"},
        applicationmanagers |-> {"user", "app"}, applicationusers |-> {"user", "app"},
        secretsindexs |-> {"index"}, accountactivationtokens |-> {"user"},
        accountsecrets |-> {"index", "user"}, groups |-> {"group"},
        groupsaccounts |-> {"group", "user"}, attribsgroups |-> {"app", "attrib", "group"},
        attribsaccounts |-> {"app", "attrib", "user"}]

Tables == DOMAIN Key

Parents == [accounts |-> {}, applications |-> {"accounts"}, attribs |-> {"applications"},
            applicationmanagers |-> {"accounts", "applications"},
            applicationusers |-> {"accounts", "applications"},
            secretsindexs |-> {}, accountactivationtokens |-> {"accounts"},
            accountsecrets |-> {"secretsindexs", "accounts"}, groups |-> {},
            groupsaccounts |-> {"groups", "accounts"},
            attribsgroups |-> {"attribs", "groups"},
            attribsaccounts |-> {"attribs", "accounts"}]

Same(r, s, columns) == \A c \in columns : r[c] = s[c]

SupportedUnlessMember(db, t, row) ==
    t = "groupsaccounts" \/ \A p \in Parents[t] : \E r \in db[p] : Same(r, row, Key[p])

Supported(db, t, row) == \A p \in Parents[t] : \E r \in db[p] : Same(r, row, Key[p])

Prune(db) == [t \in Tables |-> {r \in db[t] : Supported(db, t, r)}]

CascadeOnce(db) == IF ForeignKeys THEN Prune(db) ELSE db

\* Three levels of tables refer to each other.
Cascade(db) == IF ForeignKeys THEN Prune(Prune(Prune(db))) ELSE db

(***************************************************************************)
(* Statements.  A key is a record: the WHERE of the statement.             *)
(***************************************************************************)
Matches(row, key) == \A c \in DOMAIN key : row[c] = key[c]
Rows(db, t, key) == {r \in db[t] : Matches(r, key)}
Has(db, t, key) == Rows(db, t, key) # {}
Column(db, t, key, c, default) ==
    IF Has(db, t, key) THEN (CHOOSE r \in Rows(db, t, key) : TRUE)[c] ELSE default

\* A row with other values in some of its columns, or with more of them.
With(row, columns) ==
    [c \in DOMAIN row \cup DOMAIN columns |-> IF c \in DOMAIN columns THEN columns[c] ELSE row[c]]

Failed(db) == {[db |-> db, ok |-> FALSE]}
Ran(db, new) == {[db |-> new, ok |-> TRUE]} \cup (IF StatementsFail THEN Failed(db) ELSE {})

Insert(db, t, row) ==
    IF \/ \E r \in db[t] : Same(r, row, Key[t])
       \/ ForeignKeys /\ ~Supported(db, t, row)
    THEN Failed(db)
    ELSE Ran(db, [db EXCEPT ![t] = @ \cup {row}])

Delete(db, t, key) == Ran(db, Cascade([db EXCEPT ![t] = @ \ Rows(db, t, key)]))

Set(db, t, key, columns) ==
    Ran(db, [db EXCEPT ![t] = {IF Matches(r, key) THEN With(r, columns) ELSE r : r \in @}])

\* a && b: the second statement only if the first went well.
Then(outcomes, Next(_)) == UNION {IF o.ok THEN Next(o.db) ELSE {o} : o \in outcomes}

(***************************************************************************)
(* Accounts.                                                               *)
(***************************************************************************)
Secret(u, i, expired) == [index |-> i, user |-> u, bad |-> 0, expired |-> expired]
Account(u, attribs) == With([user |-> u, expired |-> FALSE, idle |-> FALSE, text |-> "old"], attribs)

isThereAnotherSuperUserEnabledOrNot(db, u) == \E r \in db.accounts : r.user # u /\ r.superuser

isThereAnotherSuperUser(db, u) ==
    \E r \in db.accounts : r.user # u /\ r.superuser /\ r.enabled

accountAdd(db, u, attribs) ==
    Then(Then(Insert(db, "accounts", Account(u, attribs)),
              LAMBDA d : Insert(d, "accountactivationtokens", [user |-> u])),
         LAMBDA d : Insert(d, "accountsecrets", Secret(u, 0, TRUE)))

accountRemove(db, u) ==
    IF isThereAnotherSuperUser(db, u) THEN Delete(db, "accounts", [user |-> u]) ELSE Failed(db)

accountExist(db, u) == Has(db, "accounts", [user |-> u])

accountDisable(db, u, disabled) ==
    IF disabled /\ ~isThereAnotherSuperUser(db, u) THEN Failed(db)
    ELSE Set(db, "accounts", [user |-> u], [enabled |-> ~disabled])

\* Only with the token that was made for the account.
accountConfirm(db, u) ==
    IF Has(db, "accountactivationtokens", [user |-> u])
    THEN Set(db, "accounts", [user |-> u], [confirmed |-> TRUE]) ELSE Failed(db)

accountChangeSecret(db, u, i, expired) ==
    UNION {Insert(o.db, "accountsecrets", Secret(u, i, expired)) :
             o \in Delete(db, "accountsecrets", [user |-> u, index |-> i])}

accountChangeText(db, u, text) == Set(db, "accounts", [user |-> u], [text |-> text])

accountChangeExpiration(db, u, expired) ==
    Set(db, "accounts", [user |-> u], [expired |-> expired])

InGroups(db, u, groups) == [db EXCEPT !.groupsaccounts = @ \cup {[group |-> g, user |-> u] : g \in groups}]

\* The groups are inserted one by one, until one is refused: those done so far stay.
GroupsDone(db, u, groupSet) ==
    {done \in SUBSET groupSet :
        /\ ForeignKeys => \A g \in done : Supported(db, "groupsaccounts", [group |-> g, user |-> u])
        /\ \/ done = groupSet \/ StatementsFail
           \/ /\ ForeignKeys
              /\ \E g \in groupSet \ done : ~Supported(db, "groupsaccounts", [group |-> g, user |-> u])}

accountChangeGroupSet(db, u, groupSet) ==
    Then(Delete(db, "groupsaccounts", [user |-> u]),
         LAMBDA d : {[db |-> InGroups(d, u, done), ok |-> done = groupSet] : done \in GroupsDone(d, u, groupSet)})

accountChangeAttribs(db, u, attribs) ==
    IF /\ ~(attribs.enabled /\ attribs.confirmed /\ attribs.superuser)
       /\ ~isThereAnotherSuperUser(db, u)
    THEN Failed(db)
    ELSE Set(db, "accounts", [user |-> u], attribs)

accountAttribs(db, u) ==
    [c \in {"enabled", "confirmed", "superuser"} |-> Column(db, "accounts", [user |-> u], c, FALSE)]
isAccountDisabled(db, u) == ~Column(db, "accounts", [user |-> u], "enabled", FALSE)
isAccountConfirmed(db, u) == Column(db, "accounts", [user |-> u], "confirmed", FALSE)
isAccountSuperUser(db, u) == Column(db, "accounts", [user |-> u], "superuser", FALSE)
accountText(db, u) == Column(db, "accounts", [user |-> u], "text", "")

\* An account that cannot be read has expired, and has not been used for long.
isAccountExpired(db, u) == Column(db, "accounts", [user |-> u], "expired", TRUE)
accountLastLoginIsOld(db, u) == Column(db, "accounts", [user |-> u], "idle", TRUE)

updateLastLogin(db, u) == {o.db : o \in Set(db, "accounts", [user |-> u], [idle |-> FALSE])}
resetBadAttempts(db, u, i) ==
    {o.db : o \in Set(db, "accountsecrets", [user |-> u, index |-> i], [bad |-> 0])}

\* The increment is one statement on the stored value.
incrementBadAttempts(db, u, i) ==
    {o.db : o \in Ran(db, [db EXCEPT !.accountsecrets =
                {IF r.user = u /\ r.index = i THEN [r EXCEPT !.bad = @ + 1] ELSE r : r \in @}])}

\* Every row shows in the search without words and without a limit.
accountsBasicInfoSearch(db) == db.accounts
accountsList(db) == {r.user : r \in db.accounts}
accountGroups(db, u) == {r.group : r \in Rows(db, "groupsaccounts", [user |-> u])}
accountDirectAttribs(db, u) ==
    {[app |-> r.app, attrib |-> r.attrib] : r \in Rows(db, "attribsaccounts", [user |-> u])}

NoSecret == [index |-> 0, user |-> "", bad |-> 0, expired |-> FALSE]
retrieveSecret(db, u, i) ==
    LET found == accountExist(db, u)
        rows == IF found THEN Rows(db, "accountsecrets", [user |-> u, index |-> i]) ELSE {}
    IN [accountFound |-> found, indexFound |-> rows # {},
        secret |-> IF rows # {} THEN CHOOSE r \in rows : TRUE ELSE NoSecret]

(***************************************************************************)
(* Applications, and who owns and who uses them.                           *)
(***************************************************************************)
applicationAdd(db, p, owner) ==
    Insert(db, "applications", [app |-> p, user |-> owner, text |-> "old"])
applicationRemove(db, p) == Delete(db, "applications", [app |-> p])
applicationExist(db, p) == Has(db, "applications", [app |-> p])
applicationText(db, p) == Column(db, "applications", [app |-> p], "text", "")
applicationChangeText(db, p, text) == Set(db, "applications", [app |-> p], [text |-> text])
applicationList(db) == {r.app : r \in db.applications}
applicationValidateOwner(db, p, u) == Has(db, "applicationmanagers", [user |-> u, app |-> p])
applicationValidateAccount(db, p, u) == Has(db, "applicationusers", [user |-> u, app |-> p])
applicationOwners(db, p) == {r.user : r \in Rows(db, "applicationmanagers", [app |-> p])}
applicationAccounts(db, p) == {r.user : r \in Rows(db, "applicationusers", [app |-> p])}
accountApplications(db, u) == {r.app : r \in Rows(db, "applicationusers", [user |-> u])}
applicationAccountAdd(db, p, u) == Insert(db, "applicationusers", [user |-> u, app |-> p])
applicationAccountRemove(db, p, u) == Delete(db, "applicationusers", [user |-> u, app |-> p])
applicationOwnerAdd(db, p, u) == Insert(db, "applicationmanagers", [user |-> u, app |-> p])
applicationOwnerRemove(db, p, u) == Delete(db, "applicationmanagers", [user |-> u, app |-> p])
applicationsBasicInfoSearch(db) == db.applications

(***************************************************************************)
(* Attributes: rights of an application, given to accounts and to groups.  *)
(* An attribute is a record [app, attrib].                                 *)
(***************************************************************************)
attribAdd(db, a) == Insert(db, "attribs", With(a, [text |-> "old"]))
attribRemove(db, a) == Delete(db, "attribs", a)
attribExist(db, a) == Has(db, "attribs", a)
attribGroupAdd(db, a, g) == Insert(db, "attribsgroups", With(a, [group |-> g]))
attribGroupRemove(db, a, g) == Delete(db, "attribsgroups", With(a, [group |-> g]))
attribAccountAdd(db, a, u) == Insert(db, "attribsaccounts", With(a, [user |-> u]))
attribAccountRemove(db, a, u) == Delete(db, "attribsaccounts", With(a, [user |-> u]))
attribText(db, a) == Column(db, "attribs", a, "text", "")
attribsList(db, p) ==
    {[app |-> r.app, attrib |-> r.attrib] : r \in Rows(db, "attribs", [app |-> p])}
attribGroups(db, a) == {r.group : r \in Rows(db, "attribsgroups", a)}
attribAccounts(db, a) == {r.user : r \in Rows(db, "attribsaccounts", a)}
\* It selects columns of the attributes from the table of applications: the
\* statement fails on every database.
attribsBasicInfoSearch(db, p) == {}
accountValidateDirectAttribute(db, u, a) == Has(db, "attribsaccounts", With(a, [user |-> u]))

(***************************************************************************)
(* Groups.                                                                 *)
(***************************************************************************)
groupAdd(db, g) == Insert(db, "groups", [group |-> g, text |-> "old"])
groupRemove(db, g) == Delete(db, "groups", [group |-> g])
groupExist(db, g) == Has(db, "groups", [group |-> g])
groupAccountAdd(db, g, u) == Insert(db, "groupsaccounts", [group |-> g, user |-> u])
groupAccountRemove(db, g, u) == Delete(db, "groupsaccounts", [group |-> g, user |-> u])
groupChangeText(db, g, text) == Set(db, "groups", [group |-> g], [text |-> text])
groupValidateAttribute(db, g, a) == Has(db, "attribsgroups", With(a, [group |-> g]))
groupText(db, g) == Column(db, "groups", [group |-> g], "text", "")
groupsList(db) == {r.group : r \in db.groups}
groupAttribs(db, g) ==
    {[app |-> r.app, attrib |-> r.attrib] : r \in Rows(db, "attribsgroups", [group |-> g])}
groupAccounts(db, g) == {r.user : r \in Rows(db, "groupsaccounts", [group |-> g])}
groupsBasicInfoSearch(db) == db.groups

(***************************************************************************)
(* Indexes of passwords: 0 is the master password.                         *)
(***************************************************************************)
passIndexesUsedByAccount(db, u) == {r.index : r \in Rows(db, "accountsecrets", [user |-> u])}
passIndexesRequiredForLogin(db) ==
    {r.index : r \in Rows(db, "secretsindexs", [required |-> TRUE])}
passIndexAdd(db, i, required) ==
    Insert(db, "secretsindexs", [index |-> i, required |-> required])
passIndexModify(db, i, required) ==
    Set(db, "secretsindexs", [index |-> i], [required |-> required])
passIndexDelete(db, i) == Delete(db, "secretsindexs", [index |-> i])

(***************************************************************************)
(* What Manager derives from several of these under one lock               *)
(* (src/Auth/mdz_auth/manager.cpp).                                        *)
(***************************************************************************)
accountUsableAttribs(db, u) ==
    accountDirectAttribs(db, u) \cup (UNION {groupAttribs(db, g) : g \in accountGroups(db, u)})

accountValidateAttribute(db, u, a) ==
    \/ accountValidateDirectAttribute(db, u, a)
    \/ \E g \in accountGroups(db, u) : groupValidateAttribute(db, g, a)

accountPassIndexesUsedForLogin(db, u) ==
    passIndexesUsedByAccount(db, u) \cap passIndexesRequiredForLogin(db)

===============================================================================

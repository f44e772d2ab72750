------------------------------ MODULE AuthPages ------------------------------
(***************************************************************************)
(* The queries of the FullAuth template                                    *)
(* (src/RPC/mdz_xrpc_templates/fullauth.cpp) as operators on the database: *)
(* the pages an administrator sees of an account, an application and a     *)
(* group, and the single queries.  A page is read in many sections of the  *)
(* lock; these are its contents when nothing changes meanwhile.            *)
(***************************************************************************)
EXTENDS Auth

\* JSON has no attributes of an application but those it lists.
Of(attribs, p) == {a \in attribs : a.app = p}

accountBasicInfo(u) ==
    LET direct == accountDirectAttribs(db, u)
        mine == accountApplications(db, u)
    IN [text |-> accountText(db, u), flags |-> accountAttribs(db, u),
        groups |-> accountGroups(db, u),
        groupsLeft |-> groupsList(db) \ accountGroups(db, u),
        applications |-> [p \in mine |->
            [directAttribs |-> Of(direct, p), directAttribsLeft |-> attribsList(db, p) \ direct,
             usableAttribs |-> Of(direct, p)]],
        applicationsLeft |-> applicationList(db) \ mine]

\* The single queries.
AccountFlagAnswers(u) ==
    [disabled |-> isAccountDisabled(db, u), confirmed |-> isAccountConfirmed(db, u),
     superuser |-> isAccountSuperUser(db, u)]

AccountAnswers(u) ==
    [text |-> accountText(db, u), expired |-> isAccountExpired(db, u),
     old |-> accountLastLoginIsOld(db, u),
     validate |-> {a \in Attribs : accountValidateAttribute(db, u, a)}]

AccountLists(u) ==
    [accountsList |-> accountsList(db), search |-> accountsBasicInfoSearch(db),
     groups |-> accountGroups(db, u), directAttribs |-> accountDirectAttribs(db, u),
     usableAttribs |-> accountUsableAttribs(db, u)]

ApplicationAnswers(p, u) ==
    [applications |-> applicationList(db), isOwner |-> applicationValidateOwner(db, p, u),
     isUser |-> applicationValidateAccount(db, p, u), owners |-> applicationOwners(db, p),
     accounts |-> applicationAccounts(db, p), applicationsOf |-> accountApplications(db, u)]

AttribAnswers(a) ==
    [attribsList |-> attribsList(db, a.app), groups |-> attribGroups(db, a),
     accounts |-> attribAccounts(db, a), search |-> attribsBasicInfoSearch(db, a.app)]

GroupAnswers(g) ==
    [exists |-> groupExist(db, g), validate |-> {a \in Attribs : groupValidateAttribute(db, g, a)},
     text |-> groupText(db, g), groupsList |-> groupsList(db), attribs |-> groupAttribs(db, g),
     accounts |-> groupAccounts(db, g), search |-> groupsBasicInfoSearch(db)]

\* Secrets that are required or used, and whether one more attempt disables.
getAccountAllSecretsPublicData(u) ==
    [i \in passIndexesRequiredForLogin(db) \cup passIndexesUsedByAccount(db, u) |->
        LET found == retrieveSecret(db, u, i) IN
        [nul |-> ~found.indexFound,
         locked |-> found.indexFound /\ found.secret.bad + 1 >= maxTries,
         requiredAtLogin |-> found.indexFound /\ i \in passIndexesRequiredForLogin(db)]]

applicationBasicInfo(p) ==
    [text |-> applicationText(db, p), attribs |-> attribsList(db, p),
     accounts |-> applicationAccounts(db, p)]

attribsLeftListForGroup(p, g) == attribsList(db, p) \ groupAttribs(db, g)

\* The attributes of an application in the list of a group repeat the one the
\* outer loop is at; attributes are a set here, so one of them shows.
groupBasicInfo(g) ==
    LET mine == groupAttribs(db, g) IN
    [text |-> groupText(db, g), accounts |-> groupAccounts(db, g),
     applications |-> [p \in {a.app : a \in mine} |->
         [attribs |-> {CHOOSE a \in mine : a.app = p}, attribsLeft |-> attribsLeftListForGroup(p, g)]],
     leftApplicationsList |-> {p \in applicationList(db) : attribsLeftListForGroup(p, g) # {}}]

AccountPageAgrees(u) ==
    LET page == accountBasicInfo(u) lists == AccountLists(u) answers == AccountAnswers(u)
        secrets == getAccountAllSecretsPublicData(u)
    IN /\ page.groups \cup page.groupsLeft = GroupAnswers(StaffGroup).groupsList
       /\ DOMAIN page.applications \cup page.applicationsLeft
            = {r.app : r \in applicationsBasicInfoSearch(db)}
       /\ \A p \in DOMAIN page.applications :
              LET app == page.applications[p] IN
              /\ u \in applicationBasicInfo(p).accounts
              /\ app.directAttribs \cup app.directAttribsLeft = applicationBasicInfo(p).attribs
       /\ \A g \in lists.groups : u \in groupBasicInfo(g).accounts
       /\ answers.validate = lists.usableAttribs
       /\ \E r \in lists.search : /\ r.user = u /\ r.enabled # AccountFlagAnswers(u).disabled
                                  /\ r.confirmed = page.flags.confirmed
       /\ \A i \in passIndexesUsedByAccount(db, u) : i \in DOMAIN secrets /\ ~secrets[i].nul

GroupPageAgrees(g) ==
    LET page == groupBasicInfo(g) answers == GroupAnswers(g) IN
    /\ page.accounts \subseteq accountsList(db)
    /\ DOMAIN page.applications \cup page.leftApplicationsList \subseteq applicationList(db)
    /\ answers.exists /\ answers.attribs = answers.validate
    /\ \A a \in answers.attribs : g \in AttribAnswers(a).groups /\ attribText(db, a) # ""

ApplicationAnswersAgree(p, u) ==
    LET answers == ApplicationAnswers(p, u) IN
    /\ answers.owners \cup answers.accounts \subseteq accountsList(db)
    /\ answers.isOwner <=> u \in answers.owners
    /\ answers.isUser <=> p \in answers.applicationsOf
    /\ \A a \in attribsList(db, p) : AttribAnswers(a).accounts \subseteq accountsList(db)

\* The pages and the single queries agree, whatever was removed: accounts,
\* groups and applications that are listed exist, memberships show alike from
\* both sides, and what an account has and what is left make up what there is.
PagesAgree ==
    /\ \A u \in accountsList(db) : AccountPageAgrees(u)
    /\ \A g \in groupsList(db) : GroupPageAgrees(g)
    /\ \A p \in applicationList(db), u \in Users : ApplicationAnswersAgree(p, u)

===============================================================================

-------------------------- MODULE UserAccess_proofs -------------------------
(***************************************************************************)
(* Proofs about UserAccess, for any number of workers, users, employees    *)
(* and roles.  The inductive invariant AccessInv says what a call that was *)
(* not overtaken still knows when it writes.                               *)
(***************************************************************************)
EXTENDS UserAccess, TLAPS

InProgress(s) == s.pc \in {"checked", "writing"}

\* What holds of a call that nothing overtook.
SessionSound(s) ==
    /\ InProgress(s) /\ ~s.stale => s.missed = {}
    /\ InProgress(s) /\ ~s.stale /\ s.op = "update" =>
           ActiveOwnerWouldRemain(s.user, s.status, s.roles)
    /\ InProgress(s) /\ ~s.stale /\ s.op = "invite" =>
           s.status = InvitedStatus(user[s.user])
    /\ s.pc = "linking" /\ ~s.stale => link[s.emp] \in {Nobody, s.user}

SessionsSound == \A c \in Workers : SessionSound(session[c])

AccessInv == TypeOK /\ SessionsSound /\ OwnerRemains /\ RolesAsAsked

(***************************************************************************)
(* The three kinds of session are told apart by pc.                        *)
(***************************************************************************)
LEMMA SessionKinds ==
    ASSUME TypeOK, NEW c \in Workers
    PROVE  /\ InProgress(session[c]) => session[c] \in Access
           /\ session[c].pc = "linking" => session[c] \in Linking
           /\ session[c].pc \in {"idle", "checked", "writing", "linking"}
<1>1. session[c] \in {Idle} \cup Access \cup Linking
  BY DEF TypeOK
<1>2. CASE session[c] = Idle
  BY <1>2 DEF Idle, InProgress
<1>3. CASE session[c] \in Access
  BY <1>3 DEF Access, InProgress
<1>4. CASE session[c] \in Linking
  BY <1>4 DEF Linking, InProgress
<1> QED
  BY <1>1, <1>2, <1>3, <1>4

(***************************************************************************)
(* An update leaves the other sessions as they were.                       *)
(***************************************************************************)
LEMMA BecomeFacts ==
    ASSUME TypeOK, NEW c \in Workers, NEW s, Become(c, s)
    PROVE  /\ session'[c] = s
           /\ \A d \in Workers \ {c} : session'[d] = session[d]
           /\ s \in {Idle} \cup Access \cup Linking =>
                  session' \in [Workers -> {Idle} \cup Access \cup Linking]
<1>1. session \in [Workers -> {Idle} \cup Access \cup Linking]
  BY DEF TypeOK
<1> QED
  BY <1>1 DEF Become

(***************************************************************************)
(* A call that reads, or stops, changes only its own session.              *)
(***************************************************************************)
LEMMA ReadKeepsInv ==
    ASSUME AccessInv, NEW c \in Workers, NEW s \in {Idle} \cup Access \cup Linking,
           Become(c, s), SessionSound(s),
           UNCHANGED <<user, roles, link, asked, overtaken, unguarded>>
    PROVE  AccessInv'
<1>1. TypeOK /\ SessionsSound /\ OwnerRemains /\ RolesAsAsked
  BY DEF AccessInv
<1>2. /\ session'[c] = s
      /\ \A d \in Workers \ {c} : session'[d] = session[d]
      /\ session' \in [Workers -> {Idle} \cup Access \cup Linking]
  BY <1>1, BecomeFacts
<1>3. TypeOK'
  BY <1>1, <1>2 DEF TypeOK
<1>4. SessionsSound'
  <2> SUFFICES ASSUME NEW d \in Workers
               PROVE  SessionSound(session[d])'
    BY DEF SessionsSound
  <2>1. SessionSound(session'[d])
    BY <1>1, <1>2 DEF SessionsSound
  <2> QED
    BY <2>1 DEF SessionSound, ActiveOwnerWouldRemain
<1>5. OwnerRemains' /\ RolesAsAsked'
  BY <1>1 DEF OwnerRemains, RolesAsAsked
<1> QED
  BY <1>3, <1>4, <1>5 DEF AccessInv

(***************************************************************************)
(* What a call makes of the commit of another one: it is stale if it is    *)
(* an update or an invitation, and the same as before if it is not.        *)
(***************************************************************************)
LEMMA ToldFacts ==
    ASSUME TypeOK, NEW c \in Workers, NEW d \in Workers, InProgress(session[c])
    PROVE  LET t == Told(session[d], session[c])
           IN  /\ t \in {Idle} \cup Access \cup Linking
               /\ InProgress(t) => t.stale
               /\ ~InProgress(session[d]) => t = session[d]
               /\ InProgress(session[d]) => InProgress(t)
<1> DEFINE s == session[c]
           t == Told(session[d], s)
<1>1. s \in Access /\ s.missed \in SUBSET Roles /\ s.roles \in SUBSET Roles
  BY SessionKinds DEF Access
<1>2. session[d] \in {Idle} \cup Access \cup Linking
  BY DEF TypeOK
<1>3. CASE ~InProgress(session[d])
  BY <1>2, <1>3 DEF Told, InProgress
<1>4. CASE session[d].pc = "checked"
  <2>1. session[d] \in Access
    BY <1>4, SessionKinds DEF InProgress
  <2>2. t = [session[d] EXCEPT !.stale = TRUE]
    BY <1>4 DEF Told
  <2> QED
    BY <1>4, <2>1, <2>2 DEF Access, InProgress
<1>5. CASE session[d].pc = "writing"
  <2>1. session[d] \in Access
    BY <1>5, SessionKinds DEF InProgress
  <2>2. PICK m \in SUBSET Roles : t = [session[d] EXCEPT !.stale = TRUE, !.missed = m]
    <3> DEFINE m == IF session[d].user # s.user \/ s.roles = {} THEN session[d].missed
                    ELSE (session[d].missed \cap s.missed) \cup (s.roles \ s.missed)
    <3>1. m \in SUBSET Roles
      BY <1>1, <2>1 DEF Access
    <3>2. t = [session[d] EXCEPT !.stale = TRUE, !.missed = m]
      BY <1>5 DEF Told
    <3> QED
      BY <3>1, <3>2
  <2> QED
    BY <1>5, <2>1, <2>2 DEF Access, InProgress
<1> QED
  BY <1>3, <1>4, <1>5 DEF InProgress

-----------------------------------------------------------------------------
(* The steps *)

LEMMA InitInv == Init => AccessInv
<1> SUFFICES ASSUME Init PROVE AccessInv
  OBVIOUS
<1>1. TypeOK
  BY OwnerAssumption DEF Init, TypeOK, Status, Idle
<1>2. SessionsSound
  BY DEF Init, SessionsSound, SessionSound, InProgress, Idle
<1>3. OwnerRemains
  <2>1. IsOwner(user[FirstOwner], roles[FirstOwner])
    BY OwnerAssumption DEF Init, IsOwner
  <2> QED
    BY <2>1, OwnerAssumption DEF OwnerRemains
<1>4. RolesAsAsked
  BY DEF Init, RolesAsAsked
<1> QED
  BY <1>1, <1>2, <1>3, <1>4 DEF AccessInv

LEMMA UpdateReads ==
    ASSUME AccessInv, NEW c \in Workers, NEW u \in Users, NEW new \in Updates,
           ReadForUpdate(c, u, new[1], new[2])
    PROVE  AccessInv'
<1> DEFINE s == [pc |-> "checked", op |-> "update", user |-> u, status |-> new[1],
                 roles |-> new[2], missed |-> {}, stale |-> FALSE]
<1>1. new[1] \in Status \cup {"keep"} /\ new[2] \in SUBSET Roles
  BY InputAssumption DEF NewAccess
<1>2. s \in Access
  BY <1>1 DEF Access
<1>3. SessionSound(s)
  BY DEF ReadForUpdate, SessionSound, InProgress
<1>4. Become(c, s) /\ UNCHANGED <<user, roles, link, asked, overtaken, unguarded>>
  BY DEF ReadForUpdate
<1> HIDE DEF s
<1> QED
  BY <1>2, <1>3, <1>4, ReadKeepsInv

LEMMA InviteReads ==
    ASSUME AccessInv, NEW c \in Workers, NEW u \in Users, NEW given \in Invitations,
           ReadForInvite(c, u, given)
    PROVE  AccessInv'
<1> DEFINE s == [pc |-> "checked", op |-> "invite", user |-> u,
                 status |-> InvitedStatus(user[u]),
                 roles |-> given, missed |-> {}, stale |-> FALSE]
<1>1. given \in SUBSET Roles
  BY InputAssumption
<1>2. s \in Access
  BY <1>1 DEF Access, InvitedStatus, Status
<1>3. SessionSound(s)
  BY DEF SessionSound, InProgress
<1>4. Become(c, s) /\ UNCHANGED <<user, roles, link, asked, overtaken, unguarded>>
  BY DEF ReadForInvite
<1> HIDE DEF s
<1> QED
  BY <1>2, <1>3, <1>4, ReadKeepsInv

LEMMA StartWrites ==
    ASSUME AccessInv, NEW c \in Workers, StartWriting(c)
    PROVE  AccessInv'
<1> DEFINE s == session[c]
           t == [s EXCEPT !.pc = "writing"]
<1>1. s \in Access /\ InProgress(s) /\ SessionSound(s)
  BY SessionKinds DEF AccessInv, StartWriting, InProgress, SessionsSound
<1>2. t \in Access
  BY <1>1 DEF Access
<1>3. SessionSound(t)
  <2>1. /\ t.pc = "writing" /\ t.op = s.op /\ t.user = s.user /\ t.status = s.status
        /\ t.roles = s.roles /\ t.missed = s.missed /\ t.stale = s.stale
    BY <1>1 DEF Access
  <2> QED
    BY <1>1, <2>1 DEF SessionSound, InProgress
<1>4. Become(c, t) /\ UNCHANGED <<user, roles, link, asked, overtaken, unguarded>>
  BY DEF StartWriting
<1> HIDE DEF t
<1> QED
  BY <1>2, <1>3, <1>4, ReadKeepsInv

LEMMA LinkReads ==
    ASSUME AccessInv, NEW c \in Workers, NEW u \in Users, NEW e \in Employees,
           ReadForLink(c, u, e)
    PROVE  AccessInv'
<1> DEFINE s == [pc |-> "linking", user |-> u, emp |-> e, stale |-> FALSE]
<1>1. s \in Linking
  BY DEF Linking
<1>2. SessionSound(s)
  BY DEF ReadForLink, SessionSound, InProgress
<1>3. Become(c, s) /\ UNCHANGED <<user, roles, link, asked, overtaken, unguarded>>
  BY DEF ReadForLink
<1> HIDE DEF s
<1> QED
  BY <1>1, <1>2, <1>3, ReadKeepsInv

LEMMA AbortStops ==
    ASSUME AccessInv, NEW c \in Workers, Abort(c)
    PROVE  AccessInv'
<1>1. SessionSound(Idle)
  BY DEF SessionSound, InProgress, Idle
<1> QED
  BY <1>1, ReadKeepsInv DEF Abort

(***************************************************************************)
(* The commit.  A call that was not overtaken has missed no roles; its     *)
(* check still holds of what it writes over.                               *)
(***************************************************************************)
LEMMA CommitKeepsInv ==
    ASSUME AccessInv, NEW c \in Workers, CommitAccess(c)
    PROVE  AccessInv'
<1> DEFINE s == session[c]
           u == s.user
<1>1. TypeOK /\ SessionsSound /\ OwnerRemains /\ RolesAsAsked
  BY DEF AccessInv
<1>2. s \in Access /\ InProgress(s)
  BY <1>1, SessionKinds DEF CommitAccess, InProgress
<1>3. /\ u \in Users /\ s.status \in Status \cup {"keep"} /\ s.roles \in SUBSET Roles
      /\ s.missed \in SUBSET Roles /\ s.stale \in BOOLEAN /\ s.op \in {"update", "invite"}
  BY <1>2 DEF Access
<1>4. /\ user' = [user EXCEPT ![u] = NewStatus(user[u], s.status)]
      /\ roles' = [roles EXCEPT ![u] = ReplaceRoles(s, roles[u])]
      /\ asked' = [asked EXCEPT ![u] = NewRoles(asked[u], s.roles)]
      /\ link' = link
      /\ unguarded' = Unguarded(s)
      /\ session' = [d \in Workers |-> IF d = c THEN Idle ELSE Told(session[d], s)]
      /\ overtaken' = IF s.roles = {} THEN overtaken
                      ELSE IF s.stale THEN overtaken \cup {u} ELSE overtaken \ {u}
  BY DEF CommitAccess
<1>5. /\ user \in [Users -> Status \cup {"none"}] /\ roles \in [Users -> SUBSET Roles]
      /\ asked \in [Users -> SUBSET Roles] /\ overtaken \in SUBSET Users
      /\ unguarded \in BOOLEAN
  BY <1>1 DEF TypeOK
<1>6. /\ user'[u] = NewStatus(user[u], s.status)
      /\ roles'[u] = ReplaceRoles(s, roles[u])
      /\ asked'[u] = NewRoles(asked[u], s.roles)
      /\ \A v \in Users \ {u} : user'[v] = user[v] /\ roles'[v] = roles[v] /\ asked'[v] = asked[v]
  BY <1>3, <1>4, <1>5
<1>7. \A d \in Workers :
        /\ session'[d] \in {Idle} \cup Access \cup Linking
        /\ InProgress(session'[d]) => session'[d].stale
        /\ session'[d].pc = "linking" => session'[d] = session[d]
  <2> SUFFICES ASSUME NEW d \in Workers
               PROVE  /\ session'[d] \in {Idle} \cup Access \cup Linking
                      /\ InProgress(session'[d]) => session'[d].stale
                      /\ session'[d].pc = "linking" => session'[d] = session[d]
    OBVIOUS
  <2>1. CASE d = c
    BY <1>4, <2>1 DEF Idle, InProgress
  <2>2. CASE d # c
    <3>1. session'[d] = Told(session[d], s)
      BY <1>4, <2>2
    <3>2. /\ session'[d] \in {Idle} \cup Access \cup Linking
          /\ InProgress(session'[d]) => session'[d].stale
          /\ ~InProgress(session[d]) => session'[d] = session[d]
          /\ InProgress(session[d]) => InProgress(session'[d])
      BY <1>1, <1>2, <3>1, ToldFacts
    <3> QED
      BY <3>2 DEF InProgress
  <2> QED
    BY <2>1, <2>2
<1>8. TypeOK'
  <2>1. user' \in [Users -> Status \cup {"none"}]
    BY <1>3, <1>4, <1>5 DEF NewStatus
  <2>2. roles' \in [Users -> SUBSET Roles]
    <3>1. ReplaceRoles(s, roles[u]) \in SUBSET Roles
      BY <1>3, <1>5 DEF ReplaceRoles
    <3> QED
      BY <1>4, <1>5, <3>1
  <2>3. asked' \in [Users -> SUBSET Roles]
    <3>1. NewRoles(asked[u], s.roles) \in SUBSET Roles
      BY <1>3, <1>5 DEF NewRoles
    <3> QED
      BY <1>4, <1>5, <3>1
  <2>4. session' \in [Workers -> {Idle} \cup Access \cup Linking]
    BY <1>4, <1>7
  <2>5. unguarded' \in BOOLEAN
    BY <1>3, <1>4, <1>5 DEF Unguarded, IsOwner
  <2>6. overtaken' \in SUBSET Users
    BY <1>3, <1>4, <1>5
  <2>7. link' \in [Employees -> Users \cup {Nobody}]
    BY <1>1, <1>4 DEF TypeOK
  <2> QED
    BY <2>1, <2>2, <2>3, <2>4, <2>5, <2>6, <2>7 DEF TypeOK
<1>9. SessionsSound'
  <2> SUFFICES ASSUME NEW d \in Workers PROVE SessionSound(session[d])'
    BY DEF SessionsSound
  <2>1. session'[d].pc = "linking" /\ ~session'[d].stale =>
          link[session'[d].emp] \in {Nobody, session'[d].user}
    BY <1>1, <1>7 DEF SessionsSound, SessionSound
  <2> QED
    BY <1>4, <1>7, <2>1 DEF SessionSound, InProgress
<1>10. OwnerRemains'
  <2> SUFFICES ASSUME ~unguarded' PROVE \E v \in Users : IsOwner(user'[v], roles'[v])
    BY DEF OwnerRemains
  <2>1. CASE s.op = "update"
    <3>1. ~s.stale
      BY <1>4, <2>1 DEF Unguarded
    <3>2. ActiveOwnerWouldRemain(u, s.status, s.roles)
      BY <1>1, <1>2, <2>1, <3>1 DEF SessionsSound, SessionSound
    <3>3. CASE IsOwner(NewStatus(user[u], s.status), NewRoles(roles[u], s.roles))
      <4>1. IsOwner(user'[u], roles'[u])
        BY <1>6, <3>3 DEF IsOwner, NewRoles, ReplaceRoles
      <4> QED
        BY <1>3, <4>1
    <3>4. CASE \E v \in Users \ {u} : IsOwner(user[v], roles[v])
      BY <1>6, <3>4
    <3> QED
      BY <3>2, <3>3, <3>4 DEF ActiveOwnerWouldRemain
  <2>2. CASE s.op = "invite"
    <3>1. ~unguarded /\ ~IsOwner(user[u], roles[u])
      BY <1>4, <2>2 DEF Unguarded
    <3>2. PICK v \in Users : IsOwner(user[v], roles[v])
      BY <1>1, <3>1 DEF OwnerRemains
    <3>3. v # u
      BY <3>1, <3>2
    <3> QED
      BY <1>6, <3>2, <3>3
  <2> QED
    BY <1>3, <2>1, <2>2
<1>11. RolesAsAsked'
  <2> SUFFICES ASSUME NEW v \in Users
               PROVE  /\ asked'[v] \subseteq roles'[v]
                      /\ v \notin overtaken' => roles'[v] = asked'[v]
    BY DEF RolesAsAsked
  <2>1. asked[v] \subseteq roles[v] /\ (v \notin overtaken => roles[v] = asked[v])
    BY <1>1 DEF RolesAsAsked
  <2>2. CASE v # u
    <3>1. v \notin overtaken' => v \notin overtaken
      BY <1>4, <2>2
    <3> QED
      BY <1>6, <2>1, <2>2, <3>1
  <2>3. CASE v = u /\ s.roles = {}
    BY <1>4, <1>6, <2>1, <2>3 DEF ReplaceRoles, NewRoles
  <2>4. CASE v = u /\ s.roles # {}
    <3>1. roles'[u] = s.missed \cup s.roles /\ asked'[u] = s.roles
      BY <1>6, <2>4 DEF ReplaceRoles, NewRoles
    <3>2. u \notin overtaken' => ~s.stale
      BY <1>3, <1>4, <2>4
    <3>3. ~s.stale => s.missed = {}
      BY <1>1, <1>2 DEF SessionsSound, SessionSound
    <3> QED
      BY <2>4, <3>1, <3>2, <3>3
  <2> QED
    BY <2>2, <2>3, <2>4
<1> QED
  BY <1>8, <1>9, <1>10, <1>11 DEF AccessInv

(***************************************************************************)
(* A new link: calls about an employee whose link changed are overtaken.   *)
(***************************************************************************)
LEMMA LinkKeepsInv ==
    ASSUME AccessInv, NEW c \in Workers,
           link' \in [Employees -> Users \cup {Nobody}],
           LinksTold(c, {e \in Employees : link'[e] # link[e]}),
           UNCHANGED <<user, roles, asked, overtaken, unguarded>>
    PROVE  AccessInv'
<1> DEFINE changed == {e \in Employees : link'[e] # link[e]}
<1>1. TypeOK /\ SessionsSound /\ OwnerRemains /\ RolesAsAsked
  BY DEF AccessInv
<1>2. session' = [d \in Workers |->
        IF d = c THEN Idle
        ELSE IF session[d].pc = "linking" /\ session[d].emp \in changed
        THEN [session[d] EXCEPT !.stale = TRUE] ELSE session[d]]
  BY DEF LinksTold
<1> HIDE DEF changed
<1>3. ASSUME NEW d \in Workers
      PROVE  /\ session'[d] \in {Idle} \cup Access \cup Linking
             /\ SessionSound(session[d])'
  <2>1. session[d] \in {Idle} \cup Access \cup Linking /\ SessionSound(session[d])
    BY <1>1 DEF TypeOK, SessionsSound
  <2>2. CASE d = c
    <3>1. session'[d] = Idle
      BY <1>2, <2>2
    <3> QED
      BY <3>1 DEF SessionSound, InProgress, Idle
  <2>3. CASE d # c /\ session[d].pc = "linking" /\ session[d].emp \in changed
    <3>1. session[d] \in Linking
      BY <1>1, <2>3, SessionKinds
    <3>2. session'[d] = [session[d] EXCEPT !.stale = TRUE]
      BY <1>2, <2>3
    <3>3. session'[d] \in Linking /\ session'[d].stale
      BY <3>1, <3>2 DEF Linking
    <3> QED
      BY <3>3 DEF SessionSound, InProgress, Linking
  <2>4. CASE d # c /\ ~(session[d].pc = "linking" /\ session[d].emp \in changed)
    <3>1. session'[d] = session[d]
      BY <1>2, <2>4
    <3>2. session[d].pc = "linking" => link'[session[d].emp] = link[session[d].emp]
      BY <1>1, <2>4, SessionKinds DEF changed, Linking
    <3> QED
      BY <2>1, <3>1, <3>2 DEF SessionSound, ActiveOwnerWouldRemain
  <2> QED
    BY <2>2, <2>3, <2>4
<1>4. TypeOK'
  <2>1. session' \in [Workers -> {Idle} \cup Access \cup Linking]
    BY <1>2, <1>3
  <2> QED
    BY <1>1, <2>1 DEF TypeOK
<1>5. SessionsSound'
  BY <1>3 DEF SessionsSound
<1>6. OwnerRemains' /\ RolesAsAsked'
  BY <1>1 DEF OwnerRemains, RolesAsAsked
<1> QED
  BY <1>4, <1>5, <1>6 DEF AccessInv

LEMMA LinkWrites ==
    ASSUME AccessInv, NEW c \in Workers, LinkEmployee(c)
    PROVE  AccessInv'
<1> DEFINE s == session[c]
<1>1. link \in [Employees -> Users \cup {Nobody}] /\ s \in Linking
  BY SessionKinds DEF AccessInv, TypeOK, LinkEmployee
<1>2. link' \in [Employees -> Users \cup {Nobody}]
  <2>1. Freed(s.user) \in [Employees -> Users \cup {Nobody}]
    BY <1>1 DEF Freed
  <2>2. link' = [Freed(s.user) EXCEPT ![s.emp] = s.user]
    BY DEF LinkEmployee
  <2> QED
    BY <1>1, <2>1, <2>2 DEF Linking
<1> QED
  BY <1>2, LinkKeepsInv DEF LinkEmployee

LEMMA UnlinkWrites ==
    ASSUME AccessInv, NEW c \in Workers, NEW u \in Users, UnlinkEmployee(c, u)
    PROVE  AccessInv'
<1>1. link \in [Employees -> Users \cup {Nobody}]
  BY DEF AccessInv, TypeOK
<1>2. link' \in [Employees -> Users \cup {Nobody}]
  BY <1>1 DEF UnlinkEmployee, Freed
<1> QED
  BY <1>2, LinkKeepsInv DEF UnlinkEmployee

LEMMA NextInv == AccessInv /\ [Next]_vars => AccessInv'
<1> SUFFICES ASSUME AccessInv, [Next]_vars PROVE AccessInv'
  OBVIOUS
<1>1. CASE UNCHANGED vars
  BY <1>1 DEF vars, AccessInv, TypeOK, SessionsSound, SessionSound, OwnerRemains,
              RolesAsAsked, ActiveOwnerWouldRemain
<1>2. ASSUME NEW c \in Workers, NEW u \in Users, NEW new \in Updates,
             ReadForUpdate(c, u, new[1], new[2])
      PROVE  AccessInv'
  BY <1>2, UpdateReads
<1>3. ASSUME NEW c \in Workers, NEW u \in Users, NEW given \in Invitations,
             ReadForInvite(c, u, given)
      PROVE  AccessInv'
  BY <1>3, InviteReads
<1>4. ASSUME NEW c \in Workers, StartWriting(c) PROVE AccessInv'
  BY <1>4, StartWrites
<1>5. ASSUME NEW c \in Workers, CommitAccess(c) PROVE AccessInv'
  BY <1>5, CommitKeepsInv
<1>6. ASSUME NEW c \in Workers, NEW u \in Users, NEW e \in Employees, ReadForLink(c, u, e)
      PROVE  AccessInv'
  BY <1>6, LinkReads
<1>7. ASSUME NEW c \in Workers, LinkEmployee(c) PROVE AccessInv'
  BY <1>7, LinkWrites
<1>8. ASSUME NEW c \in Workers, NEW u \in Users, UnlinkEmployee(c, u) PROVE AccessInv'
  BY <1>8, UnlinkWrites
<1>9. ASSUME NEW c \in Workers, Abort(c) PROVE AccessInv'
  BY <1>9, AbortStops
<1> QED
  BY <1>1, <1>2, <1>3, <1>4, <1>5, <1>6, <1>7, <1>8, <1>9 DEF Next

LEMMA AlwaysAccessInv == Spec => []AccessInv
BY InitInv, NextInv, PTL DEF Spec

-----------------------------------------------------------------------------
(* The theorems *)

(***************************************************************************)
(* Every reachable state is well-typed: in particular no user ever gets a  *)
(* status or a role that does not exist.                                   *)
(***************************************************************************)
THEOREM AccessTypeCorrect == Spec => []TypeOK
BY AlwaysAccessInv, PTL DEF AccessInv

(***************************************************************************)
(* The check of updateDbUserAccess keeps an active owner, whoever calls    *)
(* and however many, except when it is overtaken or an active owner is     *)
(* invited again.                                                          *)
(***************************************************************************)
THEOREM ActiveOwnerAlwaysRemains == Spec => []OwnerRemains
BY AlwaysAccessInv, PTL DEF AccessInv

(***************************************************************************)
(* replaceDbRoles never loses a role that was given last, and leaves no    *)
(* other unless calls on one user overtook each other.                     *)
(***************************************************************************)
THEOREM RolesAlwaysAsAsked == Spec => []RolesAsAsked
BY AlwaysAccessInv, PTL DEF AccessInv

(***************************************************************************)
(* An invitation that nothing overtook does not lift a suspension.         *)
(***************************************************************************)
THEOREM SuspensionAlwaysKept == Spec => SuspensionKept
<1>1. AccessInv /\ [Next]_vars =>
        [\A c \in Workers, u \in Users :
            /\ session[c].pc = "writing" /\ session'[c] = Idle
            /\ session[c].op = "invite" /\ ~session[c].stale
            /\ user[u] = "suspended"
            => user'[u] = "suspended"]_vars
  <2> SUFFICES ASSUME AccessInv, Next, NEW c \in Workers, NEW u \in Users,
                      session[c].pc = "writing", session'[c] = Idle,
                      session[c].op = "invite", ~session[c].stale,
                      user[u] = "suspended"
               PROVE  user'[u] = "suspended"
    OBVIOUS
  <2>1. CASE user' = user
    BY <2>1
  <2>2. CASE user' # user
    <3>1. PICK d \in Workers : CommitAccess(d)
      BY <2>2 DEF Next, ReadForUpdate, ReadForInvite, StartWriting, ReadForLink,
                  LinkEmployee, UnlinkEmployee, Abort
    <3>2. TypeOK /\ InProgress(session[c]) /\ InProgress(session[d])
      BY <3>1 DEF AccessInv, CommitAccess, InProgress
    <3>3. d = c
      <4> SUFFICES ASSUME d # c PROVE FALSE
        OBVIOUS
      <4>1. session'[c] = Told(session[c], session[d])
        BY <3>1 DEF CommitAccess
      <4>2. InProgress(session'[c])
        BY <3>2, <4>1, ToldFacts
      <4> QED
        BY <4>2 DEF InProgress, Idle
    <3>4. /\ session[c].status = InvitedStatus(user[session[c].user])
          /\ session[c].user \in Users
          /\ user \in [Users -> Status \cup {"none"}]
      BY <3>2, SessionKinds DEF AccessInv, SessionsSound, SessionSound, Access, TypeOK
    <3>5. user' = [user EXCEPT ![session[c].user] =
                     NewStatus(user[session[c].user], session[c].status)]
      BY <3>1, <3>3 DEF CommitAccess
    <3> QED
      BY <3>4, <3>5 DEF InvitedStatus, NewStatus
  <2> QED
    BY <2>1, <2>2
<1> QED
  BY <1>1, AlwaysAccessInv, PTL DEF Spec, SuspensionKept

(***************************************************************************)
(* No call takes an employee from another user, unless the link changed    *)
(* after the call had looked.                                              *)
(***************************************************************************)
THEOREM LinkNeverTaken == Spec => LinkNotTaken
<1>1. AccessInv /\ [Next]_vars =>
        [\A c \in Workers, e \in Employees :
            /\ session[c].pc = "linking" /\ session'[c] = Idle /\ ~session[c].stale
            => link[e] \in {Nobody, session[c].user} \/ link'[e] = link[e]]_vars
  <2> SUFFICES ASSUME AccessInv, Next, NEW c \in Workers, NEW e \in Employees,
                      session[c].pc = "linking", session'[c] = Idle, ~session[c].stale,
                      link'[e] # link[e]
               PROVE  link[e] \in {Nobody, session[c].user}
    OBVIOUS
  <2>1. session[c] \in Linking /\ link[session[c].emp] \in {Nobody, session[c].user}
    BY SessionKinds DEF AccessInv, SessionsSound, SessionSound
  <2>2. CASE LinkEmployee(c)
    BY <2>1, <2>2 DEF LinkEmployee, Freed, Linking
  <2>3. CASE ~LinkEmployee(c)
    <3>1. \/ \E d \in Workers \ {c} : LinkEmployee(d)
          \/ \E d \in Workers, u \in Users : UnlinkEmployee(d, u)
      BY <2>3 DEF Next, ReadForUpdate, ReadForInvite, StartWriting, CommitAccess,
                  ReadForLink, Abort
    <3>2. PICK d \in Workers \ {c}, E \in SUBSET Employees : LinksTold(d, E)
      <4> DEFINE changed == {x \in Employees : link'[x] # link[x]}
      <4>1. changed \in SUBSET Employees
        OBVIOUS
      <4>2. CASE \E d \in Workers \ {c} : LinkEmployee(d)
        <5>1. PICK d \in Workers \ {c} : LinksTold(d, changed)
          BY <4>2 DEF LinkEmployee
        <5> QED
          BY <4>1, <5>1
      <4>3. CASE \E d \in Workers, u \in Users : UnlinkEmployee(d, u)
        <5>1. PICK d \in Workers : session[d] = Idle /\ LinksTold(d, changed)
          BY <4>3 DEF UnlinkEmployee
        <5>2. d # c
          BY <5>1 DEF Idle
        <5> QED
          BY <4>1, <5>1, <5>2
      <4> QED
        BY <3>1, <4>2, <4>3
    <3>3. session'[c].pc = "linking"
      BY <2>1, <3>2 DEF LinksTold, Linking
    <3> QED
      BY <3>3 DEF Idle
  <2> QED
    BY <2>2, <2>3
<1> QED
  BY <1>1, AlwaysAccessInv, PTL DEF Spec, LinkNotTaken

-----------------------------------------------------------------------------
(***************************************************************************)
(* The abstract accounts.  A call needs to know that the account it is     *)
(* about still exists, since accounts are never deleted, and that an       *)
(* invitation gives a role.                                                *)
(***************************************************************************)
Updating(s) == InProgress(s) /\ s.op = "update"
Inviting(s) == InProgress(s) /\ s.op = "invite"

Known(s) ==
    /\ Updating(s) \/ s.pc = "linking" => user[s.user] # "none"
    /\ Inviting(s) => s.roles # {}

CallsKnown == \A c \in Workers : Known(session[c])

\* Sessions go on with the same account, and are told nothing else about it.
LEMMA CommitSessions ==
    ASSUME AccessInv, NEW c \in Workers, CommitAccess(c), NEW d \in Workers
    PROVE  /\ session'[c] = Idle
           /\ session'[d].pc = "linking" => session'[d] = session[d]
           /\ InProgress(session'[d]) =>
                /\ InProgress(session[d]) /\ session'[d].op = session[d].op
                /\ session'[d].user = session[d].user /\ session'[d].roles = session[d].roles
<1>1. /\ TypeOK /\ InProgress(session[c]) /\ session'[c] = Idle
      /\ d # c => session'[d] = Told(session[d], session[c])
  BY DEF AccessInv, CommitAccess, InProgress
<1>2. CASE d = c
  BY <1>1, <1>2 DEF Idle, InProgress
<1>3. CASE d # c /\ ~InProgress(session[d])
  BY <1>1, <1>3, ToldFacts
<1>4. CASE d # c /\ InProgress(session[d])
  <2>1. session[d] \in Access /\ session'[d] = Told(session[d], session[c])
    BY <1>1, <1>4, SessionKinds
  <2>2. InProgress(session'[d])
    BY <1>1, <1>4, <2>1, ToldFacts
  <2>3. /\ session'[d].op = session[d].op /\ session'[d].user = session[d].user
        /\ session'[d].roles = session[d].roles
    BY <1>4, <2>1 DEF Told, InProgress, Access
  <2> QED
    BY <1>1, <1>4, <2>2, <2>3 DEF InProgress
<1> QED
  BY <1>1, <1>2, <1>3, <1>4

LEMMA LinkSessions ==
    ASSUME AccessInv, NEW c \in Workers, NEW E, LinksTold(c, E), NEW d \in Workers
    PROVE  /\ session'[c] = Idle
           /\ session'[d].pc = "linking" =>
                /\ d # c /\ session[d].pc = "linking"
                /\ session'[d].user = session[d].user /\ session'[d].emp = session[d].emp
           /\ InProgress(session'[d]) => session'[d] = session[d]
<1>1. CASE d = c
  BY <1>1 DEF LinksTold, Idle, InProgress
<1>2. CASE d # c /\ session[d].pc = "linking" /\ session[d].emp \in E
  <2>1. session[d] \in Linking
    BY <1>2, SessionKinds DEF AccessInv
  <2> QED
    BY <1>2, <2>1 DEF LinksTold, Linking, InProgress
<1>3. CASE d # c /\ ~(session[d].pc = "linking" /\ session[d].emp \in E)
  BY <1>3 DEF LinksTold
<1>4. session'[c] = Idle
  BY DEF LinksTold
<1> QED
  BY <1>1, <1>2, <1>3, <1>4

LEMMA KnownStep ==
    ASSUME AccessInv, CallsKnown, [Next]_vars
    PROVE  CallsKnown'
<1>1. ASSUME NEW c \in Workers, NEW s, session' = [session EXCEPT ![c] = s], user' = user,
             Known(s)
      PROVE  CallsKnown'
  <2>1. \A d \in Workers : Known(session'[d])
    BY <1>1 DEF CallsKnown, AccessInv, TypeOK
  <2> QED
    BY <1>1, <2>1 DEF CallsKnown, Known, Updating, Inviting, InProgress
<1>2. ASSUME NEW c \in Workers, NEW u \in Users, NEW new \in Updates,
             ReadForUpdate(c, u, new[1], new[2])
      PROVE  CallsKnown'
  BY <1>1, <1>2 DEF ReadForUpdate, Become, Known, Inviting
<1>3. ASSUME NEW c \in Workers, NEW u \in Users, NEW given \in Invitations,
             ReadForInvite(c, u, given)
      PROVE  CallsKnown'
  <2>1. given # {}
    BY InputAssumption
  <2> QED
    BY <1>1, <1>3, <2>1 DEF ReadForInvite, Become, Known, Updating
<1>4. ASSUME NEW c \in Workers, StartWriting(c)
      PROVE  CallsKnown'
  <2>1. session[c] \in Access /\ session[c].pc = "checked" /\ Known(session[c])
    BY <1>4, SessionKinds DEF StartWriting, AccessInv, InProgress, CallsKnown
  <2>2. PICK s : s = [session[c] EXCEPT !.pc = "writing"]
    OBVIOUS
  <2>3. /\ s.pc = "writing" /\ s.op = session[c].op
        /\ s.user = session[c].user /\ s.roles = session[c].roles
    BY <2>1, <2>2 DEF Access
  <2>4. Known(s)
    BY <2>1, <2>3 DEF Known, Updating, Inviting, InProgress
  <2> QED
    BY <1>1, <1>4, <2>2, <2>4 DEF StartWriting, Become
<1>5. ASSUME NEW c \in Workers, CommitAccess(c)
      PROVE  CallsKnown'
  <2>1. session[c] \in Access
    BY <1>5, SessionKinds DEF CommitAccess, AccessInv, InProgress
  <2>2. \A u \in Users : user[u] # "none" => user'[u] # "none"
    BY <1>5, <2>1 DEF CommitAccess, AccessInv, TypeOK, Access, NewStatus, Status
  <2>3. ASSUME NEW d \in Workers
        PROVE  Known(session[d])'
    <3>1. Known(session[d])
      BY DEF CallsKnown
    <3>2. session[d].pc = "linking" \/ InProgress(session[d]) => session[d].user \in Users
      BY SessionKinds DEF AccessInv, Access, Linking
    <3>3. /\ session'[d].pc = "linking" => session'[d] = session[d]
          /\ InProgress(session'[d]) =>
               /\ InProgress(session[d]) /\ session'[d].op = session[d].op
               /\ session'[d].user = session[d].user /\ session'[d].roles = session[d].roles
      BY <1>5, CommitSessions
    <3> QED
      BY <2>2, <3>1, <3>2, <3>3 DEF Known, Updating, Inviting, InProgress
  <2> QED
    BY <2>3 DEF CallsKnown
<1>6. ASSUME NEW c \in Workers, NEW u \in Users, NEW e \in Employees, ReadForLink(c, u, e)
      PROVE  CallsKnown'
  BY <1>1, <1>6 DEF ReadForLink, Become, Known, Updating, Inviting, InProgress
<1>7. ASSUME NEW c \in Workers, NEW E, LinksTold(c, E), user' = user
      PROVE  CallsKnown'
  <2>1. ASSUME NEW d \in Workers
        PROVE  Known(session[d])'
    <3>1. Known(session[d])
      BY DEF CallsKnown
    <3>2. /\ session'[d].pc = "linking" =>
                session[d].pc = "linking" /\ session'[d].user = session[d].user
          /\ InProgress(session'[d]) => session'[d] = session[d]
      BY <1>7, LinkSessions
    <3> QED
      BY <1>7, <3>1, <3>2 DEF Known, Updating, Inviting, InProgress
  <2> QED
    BY <2>1 DEF CallsKnown
<1>8. ASSUME NEW c \in Workers,
             LinkEmployee(c) \/ (\E u \in Users : UnlinkEmployee(c, u))
      PROVE  CallsKnown'
  BY <1>7, <1>8 DEF LinkEmployee, UnlinkEmployee
<1>9. ASSUME NEW c \in Workers, Abort(c)
      PROVE  CallsKnown'
  BY <1>1, <1>9 DEF Abort, Become, Idle, Known, Updating, Inviting, InProgress
<1>10. CASE UNCHANGED vars
  BY <1>10 DEF vars, CallsKnown, Known, Updating, Inviting, InProgress
<1> QED
  BY <1>2, <1>3, <1>4, <1>5, <1>6, <1>8, <1>9, <1>10 DEF Next

LEMMA AlwaysCallsKnown == Spec => []CallsKnown
<1>1. Init => CallsKnown
  BY DEF Init, CallsKnown, Known, Updating, Inviting, InProgress, Idle
<1>2. AccessInv /\ CallsKnown /\ [Next]_vars => CallsKnown'
  BY KnownStep
<1> QED
  BY <1>1, <1>2, AlwaysAccessInv, PTL DEF Spec

(***************************************************************************)
(* The commit of a call that nothing overtook is an atomic call.           *)
(***************************************************************************)
LEMMA CommitAtomic ==
    ASSUME AccessInv, CallsKnown, NEW c \in Workers, CommitAccess(c), ~session[c].stale
    PROVE  Register!Next
<1>1. PICK s, u : s = session[c] /\ u = s.user
  OBVIOUS
<1>2. s \in Access /\ InProgress(s) /\ SessionSound(s) /\ u \in Users
  BY <1>1, SessionKinds DEF AccessInv, CommitAccess, InProgress, SessionsSound, Access
<1> Known(s)
  BY <1>1 DEF CallsKnown
<1>3. s.missed = {}
  BY <1>1, <1>2 DEF SessionSound
<1>4. /\ user' = [user EXCEPT ![u] = NewStatus(user[u], s.status)]
      /\ roles' = [roles EXCEPT ![u] = NewRoles(roles[u], s.roles)]
      /\ link' = link
  BY <1>1, <1>3 DEF CommitAccess, ReplaceRoles, NewRoles
<1>5. /\ user \in [Users -> Status \cup {"none"}] /\ roles \in [Users -> SUBSET Roles]
      /\ s.status \in Status \cup {"keep"} /\ s.roles \in SUBSET Roles
  BY <1>2 DEF AccessInv, TypeOK, Access
<1>6. CASE s.op = "update"
  <2>1. user[u] # "none"
    BY <1>1, <1>2, <1>6 DEF Known, Updating
  <2>2. PICK status \in Status, given \in SUBSET Roles :
           status = NewStatus(user[u], s.status) /\ given = NewRoles(roles[u], s.roles)
    BY <1>2, <1>5, <2>1 DEF NewStatus, NewRoles
  <2>3. /\ user'[u] = status /\ roles'[u] = given
        /\ \A v \in Users \ {u} : user'[v] = user[v] /\ roles'[v] = roles[v]
    BY <1>2, <1>4, <1>5, <2>2
  <2>4. IsOwner(status, given) \/ \E v \in Users \ {u} : IsOwner(user[v], roles[v])
    BY <1>1, <1>2, <1>6, <2>2 DEF SessionSound, ActiveOwnerWouldRemain
  <2>5. \E v \in Users : user'[v] = "active" /\ "owner" \in roles'[v]
    BY <1>2, <2>3, <2>4 DEF IsOwner
  <2>6. Register!Update(u, status, given)
    BY <1>4, <2>1, <2>2, <2>5 DEF Register!Update, Register!OwnersLeft
  <2> QED
    BY <1>2, <2>6 DEF Register!Next
<1>7. CASE s.op = "invite"
  <2>1. s.status = InvitedStatus(user[u])
    BY <1>1, <1>2, <1>7 DEF SessionSound
  <2>2. NewStatus(user[u], s.status) = IF user[u] = "suspended" THEN user[u] ELSE "invited"
    BY <2>1 DEF InvitedStatus, NewStatus
  <2>3. PICK given \in SUBSET Roles : given = NewRoles(roles[u], s.roles)
    BY <1>2, <1>5 DEF NewRoles
  <2>4. s.roles # {}
    BY <1>2, <1>7 DEF Known, Inviting
  <2>5. Register!Invite(u, given)
    BY <1>4, <2>2, <2>3, <2>4 DEF Register!Invite, NewRoles
  <2> QED
    BY <1>2, <2>5 DEF Register!Next
<1> QED
  BY <1>2, <1>6, <1>7 DEF Access

LEMMA LinkAtomic ==
    ASSUME AccessInv, CallsKnown, NEW c \in Workers, LinkEmployee(c),
           link[session[c].emp] \in {Nobody, session[c].user}
    PROVE  Register!Next
<1>1. PICK s : s = session[c]
  OBVIOUS
<1>2. s \in Linking /\ s.pc = "linking" /\ Known(s)
  BY <1>1, SessionKinds DEF AccessInv, LinkEmployee, CallsKnown
<1>3. s.user \in Users /\ s.emp \in Employees /\ user[s.user] # "none"
  BY <1>2 DEF Linking, Known
<1>4. Register!Link(s.user, s.emp)
  BY <1>1, <1>3 DEF Register!Link, Register!Without, LinkEmployee, Freed
<1> QED
  BY <1>3, <1>4 DEF Register!Next

LEMMA UnlinkAtomic ==
    ASSUME NEW c \in Workers, NEW u \in Users, UnlinkEmployee(c, u)
    PROVE  Register!Next
<1>1. Register!Unlink(u)
  BY DEF UnlinkEmployee, Freed, Register!Unlink, Register!Without
<1> QED
  BY <1>1 DEF Register!Next

(***************************************************************************)
(* A call of updateDbUserAccess, inviteDbUser or linkDbUserEmployee that   *)
(* nothing overtook takes effect atomically: its check at the start of the *)
(* transaction holds of the rows it writes over.                           *)
(***************************************************************************)
THEOREM CallsAtomicUnlessOvertaken == Spec => AtomicUnlessOvertaken
<1>1. ASSUME AccessInv, CallsKnown, [Next]_vars,
             \A c \in Workers : session'[c] = Idle /\ session[c] # Idle => ~session[c].stale
      PROVE  [Register!Next]_(Register!accounts)
  <2>1. ASSUME NEW c \in Workers, CommitAccess(c)
        PROVE  Register!Next
    <3>1. session[c] # Idle /\ session'[c] = Idle
      BY <1>1, <2>1, CommitSessions DEF CommitAccess, Idle
    <3> QED
      BY <1>1, <2>1, <3>1, CommitAtomic
  <2>2. ASSUME NEW c \in Workers, LinkEmployee(c)
        PROVE  Register!Next
    <3>1. session[c] # Idle /\ session'[c] = Idle /\ session[c].pc = "linking"
      BY <2>2 DEF LinkEmployee, LinksTold, Idle
    <3>2. link[session[c].emp] \in {Nobody, session[c].user}
      BY <1>1, <3>1 DEF AccessInv, SessionsSound, SessionSound
    <3> QED
      BY <1>1, <2>2, <3>2, LinkAtomic
  <2>3. ASSUME NEW c \in Workers, NEW u \in Users, UnlinkEmployee(c, u)
        PROVE  Register!Next
    BY <2>3, UnlinkAtomic
  <2>4. CASE UNCHANGED vars
    BY <2>4 DEF vars, Register!accounts
  <2> QED
    BY <1>1, <2>1, <2>2, <2>3, <2>4 DEF Next, ReadForUpdate, ReadForInvite, StartWriting,
       ReadForLink, Abort, Register!accounts
<1>2. AccessInv /\ CallsKnown /\ [Next]_vars =>
        [(\A c \in Workers : session'[c] = Idle /\ session[c] # Idle => ~session[c].stale)
            => [Register!Next]_(Register!accounts)]_vars
  BY <1>1
<1> QED
  BY <1>2, AlwaysAccessInv, AlwaysCallsKnown, PTL DEF Spec, AtomicUnlessOvertaken

-----------------------------------------------------------------------------
(***************************************************************************)
(* Changes of access one after the other, and links one after the other;   *)
(* the two kinds may still overlap, and an unlinking may come at any time. *)
(***************************************************************************)
OneOfEachAtATime ==
    \A c, d \in Workers : c # d =>
        /\ ~(InProgress(session[c]) /\ InProgress(session[d]))
        /\ ~(session[c].pc = "linking" /\ session[d].pc = "linking")

NeverOvertaken ==
    /\ overtaken = {}
    /\ \A c \in Workers :
         /\ InProgress(session[c]) => ~session[c].stale
         /\ session[c].pc = "linking" => link[session[c].emp] \in {Nobody, session[c].user}

LEMMA AloneStep ==
    ASSUME AccessInv, NeverOvertaken, OneOfEachAtATime, [Next]_vars
    PROVE  NeverOvertaken'
<1>1. ASSUME NEW c \in Workers, NEW s, session' = [session EXCEPT ![c] = s],
             link' = link, overtaken' = overtaken,
             InProgress(s) => ~s.stale,
             s.pc = "linking" => link[s.emp] \in {Nobody, s.user}
      PROVE  NeverOvertaken'
  <2>1. \A d \in Workers : session'[d] = IF d = c THEN s ELSE session[d]
    BY <1>1 DEF AccessInv, TypeOK
  <2> QED
    BY <1>1, <2>1 DEF NeverOvertaken, InProgress
<1>2. ASSUME NEW c \in Workers, NEW u \in Users, NEW new \in Updates,
             ReadForUpdate(c, u, new[1], new[2])
      PROVE  NeverOvertaken'
  BY <1>1, <1>2 DEF ReadForUpdate, Become
<1>3. ASSUME NEW c \in Workers, NEW u \in Users, NEW given \in Invitations,
             ReadForInvite(c, u, given)
      PROVE  NeverOvertaken'
  BY <1>1, <1>3 DEF ReadForInvite, Become
<1>4. ASSUME NEW c \in Workers, StartWriting(c)
      PROVE  NeverOvertaken'
  <2>1. session[c] \in Access /\ ~session[c].stale
    BY <1>4, SessionKinds DEF StartWriting, AccessInv, InProgress, NeverOvertaken
  <2>2. PICK s : s = [session[c] EXCEPT !.pc = "writing"]
    OBVIOUS
  <2>3. s.pc = "writing" /\ ~s.stale
    BY <2>1, <2>2 DEF Access
  <2> QED
    BY <1>1, <1>4, <2>2, <2>3 DEF StartWriting, Become
<1>5. ASSUME NEW c \in Workers, CommitAccess(c)
      PROVE  NeverOvertaken'
  <2>1. InProgress(session[c]) /\ ~session[c].stale /\ link' = link
    BY <1>5 DEF CommitAccess, InProgress, NeverOvertaken
  <2>2. overtaken' = {}
    BY <1>5, <2>1 DEF CommitAccess, NeverOvertaken
  <2>3. ASSUME NEW d \in Workers, InProgress(session'[d])
        PROVE  FALSE
    <3>1. d # c
      BY <1>5, <2>3, CommitSessions DEF Idle, InProgress
    <3>2. InProgress(session[d])
      BY <1>5, <2>3, CommitSessions
    <3> QED
      BY <2>1, <3>1, <3>2 DEF OneOfEachAtATime
  <2>4. ASSUME NEW d \in Workers, session'[d].pc = "linking"
        PROVE  link'[session'[d].emp] \in {Nobody, session'[d].user}
    <3>1. session'[d] = session[d]
      BY <1>5, <2>4, CommitSessions
    <3> QED
      BY <2>1, <2>4, <3>1 DEF NeverOvertaken
  <2> QED
    BY <2>2, <2>3, <2>4 DEF NeverOvertaken, InProgress
<1>6. ASSUME NEW c \in Workers, NEW u \in Users, NEW e \in Employees, ReadForLink(c, u, e)
      PROVE  NeverOvertaken'
  BY <1>1, <1>6 DEF ReadForLink, Become, InProgress
<1>7. ASSUME NEW c \in Workers, LinkEmployee(c)
      PROVE  NeverOvertaken'
  <2>1. session[c].pc = "linking" /\ overtaken' = overtaken
        /\ \E E : LinksTold(c, E)
    BY <1>7 DEF LinkEmployee
  <2>2. ASSUME NEW d \in Workers
        PROVE  /\ session'[d].pc # "linking"
               /\ InProgress(session'[d]) => ~session'[d].stale
    <3>1. session'[d].pc = "linking" => d # c /\ session[d].pc = "linking"
      BY <2>1, LinkSessions
    <3>2. InProgress(session'[d]) => session'[d] = session[d]
      BY <2>1, LinkSessions
    <3> QED
      BY <2>1, <3>1, <3>2 DEF OneOfEachAtATime, NeverOvertaken
  <2> QED
    BY <2>1, <2>2 DEF NeverOvertaken, InProgress
<1>8. ASSUME NEW c \in Workers, NEW u \in Users, UnlinkEmployee(c, u)
      PROVE  NeverOvertaken'
  <2>1. /\ overtaken' = overtaken /\ \E E : LinksTold(c, E)
        /\ \A e \in Employees : link'[e] \in {Nobody, link[e]}
    BY <1>8 DEF UnlinkEmployee, Freed
  <2>2. ASSUME NEW d \in Workers
        PROVE  /\ InProgress(session'[d]) => ~session'[d].stale
               /\ session'[d].pc = "linking" =>
                    link'[session'[d].emp] \in {Nobody, session'[d].user}
    <3>1. /\ session'[d].pc = "linking" =>
                /\ session[d].pc = "linking"
                /\ session'[d].user = session[d].user /\ session'[d].emp = session[d].emp
          /\ InProgress(session'[d]) => session'[d] = session[d]
      BY <2>1, LinkSessions
    <3>2. session[d].pc = "linking" => session[d].emp \in Employees
      BY SessionKinds DEF AccessInv, Linking
    <3> QED
      BY <2>1, <3>1, <3>2 DEF NeverOvertaken
  <2> QED
    BY <2>1, <2>2 DEF NeverOvertaken, InProgress
<1>9. ASSUME NEW c \in Workers, Abort(c)
      PROVE  NeverOvertaken'
  BY <1>1, <1>9 DEF Abort, Become, Idle, InProgress
<1>10. CASE UNCHANGED vars
  BY <1>10 DEF vars, NeverOvertaken, InProgress
<1> QED
  BY <1>2, <1>3, <1>4, <1>5, <1>6, <1>7, <1>8, <1>9, <1>10 DEF Next

LEMMA AloneNeverOvertaken == Spec /\ []OneOfEachAtATime => []NeverOvertaken
<1>1. Init => NeverOvertaken
  BY DEF Init, NeverOvertaken, Idle, InProgress
<1>2. AccessInv /\ NeverOvertaken /\ OneOfEachAtATime /\ [Next]_vars => NeverOvertaken'
  BY AloneStep
<1> QED
  BY <1>1, <1>2, AlwaysAccessInv, PTL DEF Spec

(***************************************************************************)
(* With changes of access one after the other, and links one after the     *)
(* other, access-management.ts implements the abstract accounts: every     *)
(* call is atomic.  An overlap is all that ever goes wrong.                *)
(***************************************************************************)
THEOREM AloneImplementsAccounts == Spec /\ []OneOfEachAtATime => Register!Spec
<1>1. Init => Register!Init
  BY DEF Init, Register!Init
<1>2. ASSUME AccessInv, CallsKnown, NeverOvertaken, [Next]_vars
      PROVE  [Register!Next]_(Register!accounts)
  <2>1. ASSUME NEW c \in Workers, CommitAccess(c)
        PROVE  Register!Next
    <3>1. ~session[c].stale
      BY <1>2, <2>1 DEF CommitAccess, NeverOvertaken, InProgress
    <3> QED
      BY <1>2, <2>1, <3>1, CommitAtomic
  <2>2. ASSUME NEW c \in Workers, LinkEmployee(c)
        PROVE  Register!Next
    <3>1. link[session[c].emp] \in {Nobody, session[c].user}
      BY <1>2, <2>2 DEF LinkEmployee, NeverOvertaken
    <3> QED
      BY <1>2, <2>2, <3>1, LinkAtomic
  <2>3. ASSUME NEW c \in Workers, NEW u \in Users, UnlinkEmployee(c, u)
        PROVE  Register!Next
    BY <2>3, UnlinkAtomic
  <2>4. CASE UNCHANGED vars
    BY <2>4 DEF vars, Register!accounts
  <2> QED
    BY <1>2, <2>1, <2>2, <2>3, <2>4 DEF Next, ReadForUpdate, ReadForInvite, StartWriting,
       ReadForLink, Abort, Register!accounts
<1>3. AccessInv /\ CallsKnown /\ NeverOvertaken /\ [Next]_vars => [Register!Next]_(Register!accounts)
  BY <1>2
<1> QED
  BY <1>1, <1>3, AlwaysAccessInv, AlwaysCallsKnown, AloneNeverOvertaken, PTL
     DEF Spec, Register!Spec

OwnerInvited ==
    \E c \in Workers :
        /\ CommitAccess(c) /\ session[c].op = "invite"
        /\ IsOwner(user[session[c].user], roles[session[c].user])

(***************************************************************************)
(* Then only the invitation of an active owner can leave a company without *)
(* one: "At least one active Owner must remain." (access-management.ts:    *)
(* 876) holds of every other change of access.                             *)
(***************************************************************************)
THEOREM AloneOwnerRemains ==
    Spec /\ []OneOfEachAtATime /\ [][~OwnerInvited]_vars
        => [](\E u \in Users : IsOwner(user[u], roles[u]))
<1>1. Init => ~unguarded
  BY DEF Init
<1>2. ASSUME AccessInv, NeverOvertaken, ~unguarded, [Next]_vars, [~OwnerInvited]_vars
      PROVE  ~unguarded'
  <2>1. ASSUME NEW c \in Workers, CommitAccess(c)
        PROVE  ~unguarded'
    <3>1. session[c] \in Access /\ InProgress(session[c]) /\ ~session[c].stale
      BY <1>2, <2>1, SessionKinds DEF AccessInv, CommitAccess, NeverOvertaken, InProgress
    <3>2. CASE session[c].op = "update"
      BY <2>1, <3>1, <3>2 DEF CommitAccess, Unguarded
    <3>3. CASE session[c].op = "invite"
      <4>1. session'[c] # session[c]
        BY <1>2, <2>1, CommitSessions DEF CommitAccess, Idle
      <4>2. ~OwnerInvited
        BY <1>2, <4>1 DEF vars
      <4>3. ~IsOwner(user[session[c].user], roles[session[c].user])
        BY <2>1, <3>3, <4>2 DEF OwnerInvited
      <4>4. unguarded' = Unguarded(session[c])
        BY <2>1 DEF CommitAccess
      <4> QED
        BY <1>2, <3>3, <4>3, <4>4 DEF Unguarded
    <3> QED
      BY <3>1, <3>2, <3>3 DEF Access
  <2> QED
    BY <1>2, <2>1 DEF Next, vars, ReadForUpdate, ReadForInvite, StartWriting, ReadForLink,
       LinkEmployee, UnlinkEmployee, Abort
<1>3. AccessInv /\ NeverOvertaken /\ ~unguarded /\ [Next]_vars /\ [~OwnerInvited]_vars => ~unguarded'
  BY <1>2
<1>4. AccessInv /\ ~unguarded => \E u \in Users : IsOwner(user[u], roles[u])
  BY DEF AccessInv, OwnerRemains
<1> QED
  BY <1>1, <1>3, <1>4, AlwaysAccessInv, AloneNeverOvertaken, PTL DEF Spec
=============================================================================

----------------------------- MODULE UserAccess -----------------------------
(***************************************************************************)
(* The accounts of a company: src/server/auth/access-management.ts.        *)
(* Owners and HR invite users, change their status and roles, and link     *)
(* them to employees; at least one active owner must remain.               *)
(*                                                                         *)
(* A call checks what it reads at the start of its transaction, without a  *)
(* lock, and then writes.  Only a call that sets the status locks the row  *)
(* of the user; roles are rows of their own, deleted and inserted again.   *)
(***************************************************************************)
EXTENDS Integers, FiniteSets

CONSTANTS
    Workers,        \* server requests that may be in progress together
    Users,          \* accounts, by email
    Employees,
    Roles,
    FirstOwner,     \* the account the provisioning of the tenant creates
    Updates,        \* the statuses and roles updates ask for
    Invitations     \* the roles invitations are for

\* "keep" and the empty set: the call leaves the status, or the roles, alone.
Status == {"invited", "active", "suspended"}
NewAccess == (Status \cup {"keep"}) \X SUBSET Roles

ASSUME OwnerAssumption == "owner" \in Roles /\ FirstOwner \in Users
ASSUME InputAssumption == Updates \subseteq NewAccess /\ Invitations \subseteq (SUBSET Roles) \ {{}}

VARIABLES
    user,           \* the status of each User row, "none" if there is none
    roles,          \* the roles of its UserRole rows
    link,           \* the user each Employee row refers to
    session,        \* the call each worker has in progress
    asked,          \* history: the roles last given to each user
    overtaken,      \* history: users whose roles were last set by an overtaken call
    unguarded       \* history: see Unguarded

vars == <<user, roles, link, session, asked, overtaken, unguarded>>

Idle == [pc |-> "idle"]
Nobody == "nobody"

Access == [pc : {"checked", "writing"}, op : {"update", "invite"}, user : Users,
           status : Status \cup {"keep"}, roles : SUBSET Roles,
           missed : SUBSET Roles, stale : BOOLEAN]
Linking == [pc : {"linking"}, user : Users, emp : Employees, stale : BOOLEAN]

TypeOK ==
    /\ user \in [Users -> Status \cup {"none"}]
    /\ roles \in [Users -> SUBSET Roles]
    /\ link \in [Employees -> Users \cup {Nobody}]
    /\ session \in [Workers -> {Idle} \cup Access \cup Linking]
    /\ asked \in [Users -> SUBSET Roles]
    /\ overtaken \in SUBSET Users
    /\ unguarded \in BOOLEAN

Init ==
    /\ user = [u \in Users |-> IF u = FirstOwner THEN "active" ELSE "none"]
    /\ roles = [u \in Users |-> IF u = FirstOwner THEN {"owner"} ELSE {}]
    /\ link = [e \in Employees |-> Nobody]
    /\ session = [c \in Workers |-> Idle]
    /\ asked = roles
    /\ overtaken = {}
    /\ unguarded = FALSE

Become(c, s) == session' = [session EXCEPT ![c] = s]

IsOwner(status, given) == status = "active" /\ "owner" \in given
NewStatus(old, status) == IF status = "keep" THEN old ELSE status
NewRoles(old, given) == IF given = {} THEN old ELSE given

-----------------------------------------------------------------------------
(* updateDbUserAccess *)

\* Mutant: the guard looks at roles and forgets that the account may be suspended.
AnyOwnerWouldRemain(u, status, given) ==
    \/ "owner" \in NewRoles(roles[u], given)
    \/ \E v \in Users \ {u} : "owner" \in roles[v]

\* assertActiveOwnerWouldRemain
ActiveOwnerWouldRemain(u, status, given) ==
    \/ IsOwner(NewStatus(user[u], status), NewRoles(roles[u], given))
    \/ \E v \in Users \ {u} : IsOwner(user[v], roles[v])

ReadForUpdate(c, u, status, given) ==
    /\ session[c] = Idle
    /\ user[u] # "none"
    /\ ActiveOwnerWouldRemain(u, status, given)
    /\ Become(c, [pc |-> "checked", op |-> "update", user |-> u, status |-> status,
                  roles |-> given, missed |-> {}, stale |-> FALSE])
    /\ UNCHANGED <<user, roles, link, asked, overtaken, unguarded>>

-----------------------------------------------------------------------------
(* inviteDbUser: a known email is invited again. *)

\* Mutant: the status is left as it was.
InvitedAsBefore(status) == status

\* Mutant: an invitation lifts a suspension.
InvitedAnyway(status) == "invited"

InvitedStatus(status) == IF status = "suspended" THEN "suspended" ELSE "invited"

ReadForInvite(c, u, given) ==
    /\ session[c] = Idle
    /\ Become(c, [pc |-> "checked", op |-> "invite", user |-> u,
                  status |-> InvitedStatus(user[u]),
                  roles |-> given, missed |-> {}, stale |-> FALSE])
    /\ UNCHANGED <<user, roles, link, asked, overtaken, unguarded>>

-----------------------------------------------------------------------------
(* The writes of both *)

HoldsRow(c, u) ==
    session[c].pc = "writing" /\ session[c].user = u /\ session[c].status # "keep"

(***************************************************************************)
(* The User row is updated, if the call sets a status, and the deleteMany  *)
(* of replaceDbRoles takes its snapshot: roles committed from now on are   *)
(* missed, that is, not deleted.                                           *)
(***************************************************************************)
StartWriting(c) ==
    LET s == session[c]
    IN  /\ s.pc = "checked"
        /\ s.status # "keep" => \A d \in Workers : ~HoldsRow(d, s.user)
        /\ Become(c, [s EXCEPT !.pc = "writing"])
        /\ UNCHANGED <<user, roles, link, asked, overtaken, unguarded>>

\* Mutant: the old roles are not deleted.
RolesAdded(s, old) == old \cup s.roles

\* replaceDbRoles; a role that is already there is skipped.
ReplaceRoles(s, old) == IF s.roles = {} THEN old ELSE s.missed \cup s.roles

\* What another call in progress makes of the commit of s.
Told(t, s) ==
    CASE t.pc = "checked" -> [t EXCEPT !.stale = TRUE]
      [] t.pc = "writing" ->
           [t EXCEPT !.stale = TRUE,
                     !.missed = IF t.user # s.user \/ s.roles = {} THEN t.missed
                                ELSE (t.missed \cap s.missed) \cup (s.roles \ s.missed)]
      [] OTHER -> t

(***************************************************************************)
(* An update that nothing overtook has been checked against what it writes *)
(* over.  An update that was overtaken, and the invitation of an active    *)
(* owner, have not.                                                        *)
(***************************************************************************)
Unguarded(s) ==
    CASE s.op = "update" -> s.stale
      [] s.op = "invite" -> unguarded \/ IsOwner(user[s.user], roles[s.user])

CommitAccess(c) ==
    LET s == session[c]
        u == s.user
    IN  /\ s.pc = "writing"
        /\ user' = [user EXCEPT ![u] = NewStatus(user[u], s.status)]
        /\ roles' = [roles EXCEPT ![u] = ReplaceRoles(s, roles[u])]
        /\ session' = [d \in Workers |-> IF d = c THEN Idle ELSE Told(session[d], s)]
        /\ asked' = [asked EXCEPT ![u] = NewRoles(asked[u], s.roles)]
        /\ overtaken' = IF s.roles = {} THEN overtaken
                        ELSE IF s.stale THEN overtaken \cup {u} ELSE overtaken \ {u}
        /\ unguarded' = Unguarded(s)
        /\ UNCHANGED link

-----------------------------------------------------------------------------
(* linkDbUserEmployee *)

\* Mutant: nobody looks whether the employee has a user.
ReadForAnyLink(c, u, e) ==
    /\ session[c] = Idle
    /\ user[u] # "none"
    /\ Become(c, [pc |-> "linking", user |-> u, emp |-> e, stale |-> FALSE])
    /\ UNCHANGED <<user, roles, link, asked, overtaken, unguarded>>

ReadForLink(c, u, e) ==
    /\ session[c] = Idle
    /\ user[u] # "none"
    /\ link[e] \in {Nobody, u}
    /\ Become(c, [pc |-> "linking", user |-> u, emp |-> e, stale |-> FALSE])
    /\ UNCHANGED <<user, roles, link, asked, overtaken, unguarded>>

\* The employee of u is freed first: Employee.userId is unique.
Freed(u) == [e \in Employees |-> IF link[e] = u THEN Nobody ELSE link[e]]

\* Calls that are linking learn of a new link only from the unique key.
LinksTold(c, changed) ==
    session' = [d \in Workers |->
        IF d = c THEN Idle
        ELSE IF session[d].pc = "linking" /\ session[d].emp \in changed
        THEN [session[d] EXCEPT !.stale = TRUE] ELSE session[d]]

LinkEmployee(c) ==
    LET s == session[c]
    IN  /\ s.pc = "linking"
        /\ link' = [Freed(s.user) EXCEPT ![s.emp] = s.user]
        /\ LinksTold(c, {e \in Employees : link'[e] # link[e]})
        /\ UNCHANGED <<user, roles, asked, overtaken, unguarded>>

UnlinkEmployee(c, u) ==
    /\ session[c] = Idle
    /\ user[u] # "none"
    /\ link' = Freed(u)
    /\ LinksTold(c, {e \in Employees : link'[e] # link[e]})
    /\ UNCHANGED <<user, roles, asked, overtaken, unguarded>>

-----------------------------------------------------------------------------
\* A statement fails, also on a unique key, or the server stops.
Abort(c) ==
    /\ session[c] # Idle
    /\ Become(c, Idle)
    /\ UNCHANGED <<user, roles, link, asked, overtaken, unguarded>>

Next == \E c \in Workers :
    \/ \E u \in Users, new \in Updates : ReadForUpdate(c, u, new[1], new[2])
    \/ \E u \in Users, given \in Invitations : ReadForInvite(c, u, given)
    \/ StartWriting(c) \/ CommitAccess(c)
    \/ \E u \in Users, e \in Employees : ReadForLink(c, u, e)
    \/ LinkEmployee(c)
    \/ \E u \in Users : UnlinkEmployee(c, u)
    \/ Abort(c)

Spec == Init /\ [][Next]_vars

-----------------------------------------------------------------------------
(* Properties *)

(***************************************************************************)
(* "At least one active Owner must remain." (access-management.ts:876), as *)
(* long as no update was overtaken by another call and no active owner was *)
(* invited again; the next update on its own restores it.                  *)
(***************************************************************************)
OwnerRemains == ~unguarded => \E u \in Users : IsOwner(user[u], roles[u])

(***************************************************************************)
(* A user has the roles last given, and more only if another call gave     *)
(* roles to the same user in between: then neither call's roles are lost.  *)
(***************************************************************************)
RolesAsAsked ==
    \A u \in Users :
        /\ asked[u] \subseteq roles[u]
        /\ u \notin overtaken => roles[u] = asked[u]


(***************************************************************************)
(* An invitation does not lift a suspension (access-management.ts:281),    *)
(* unless the user was suspended while the invitation was under way.       *)
(***************************************************************************)
SuspensionKept ==
    [][\A c \in Workers, u \in Users :
          /\ session[c].pc = "writing" /\ session'[c] = Idle
          /\ session[c].op = "invite" /\ ~session[c].stale
          /\ user[u] = "suspended"
          => user'[u] = "suspended"]_vars

(***************************************************************************)
(* "Employee is already linked to another user." (access-management.ts:    *)
(* 428): no call takes an employee from a user, unless the link was made   *)
(* or changed after the call had looked.                                   *)
(***************************************************************************)
LinkNotTaken ==
    [][\A c \in Workers, e \in Employees :
          /\ session[c].pc = "linking" /\ session'[c] = Idle /\ ~session[c].stale
          => link[e] \in {Nobody, session[c].user} \/ link'[e] = link[e]]_vars

-----------------------------------------------------------------------------
(* The abstract accounts *)

Register == INSTANCE Accounts

(***************************************************************************)
(* Every call that nothing overtook takes effect as if it had been alone:  *)
(* all it changes changes at its commit, the owner guard and the check of  *)
(* the suspension and of the link hold of what it writes over, and what    *)
(* stays is what was there before.                                         *)
(***************************************************************************)
AtomicUnlessOvertaken ==
    [][(\A c \in Workers : session'[c] = Idle /\ session[c] # Idle => ~session[c].stale)
          => [Register!Next]_(Register!accounts)]_vars
=============================================================================

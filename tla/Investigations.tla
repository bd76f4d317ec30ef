---------------------------- MODULE Investigations ----------------------------
(***************************************************************************)
(* Who may do what to a case, and what is remembered of it: the two gates  *)
(* of every route (middleware/rbac.ts), the case documents and notes       *)
(* (modules/investigations), the roles an administrator grants             *)
(* (modules/admin, auth/admin-cli.ts), the trail (modules/audit), the      *)
(* rooms of the real-time server (realtime/io.ts), and the rule by which   *)
(* the web client decides what to offer (DeleteInvestigation.tsx,          *)
(* TeamPanel.tsx, CommentThread.tsx).                                      *)
(*                                                                         *)
(* A request is admitted, loads the document, saves what it changed and    *)
(* writes the trail: four steps between which other requests run.  The     *)
(* role a request is admitted with is a claim of the access token, so it   *)
(* is as old as the last sign-in.  Mongoose saves the paths that changed,  *)
(* and refuses to set an element of an array that has grown since.         *)
(***************************************************************************)
EXTENDS Naturals, Sequences, FiniteSets

CONSTANTS
  Accounts,         \* people who have registered
  Named,            \* those whose role or membership a request changes
  Granted,          \* roles that are granted
  Chief,            \* the one made administrator with the CLI
  Sweeper,          \* the account of the sweep, which cannot sign in
  Folders,          \* investigations, those to come included
  Requests,         \* requests under way at one time
  Instants,         \* of the time window
  MaxSpan,          \* MAX_WINDOW_DAYS
  MaxNotes,         \* bound: comments
  MaxCaseSteps,     \* bound: requests admitted, roles that change, sockets, entries lost
  MaxCasesMishaps   \* bound: entries that are lost

Roles == {"viewer", "analyst", "lead", "admin"}

ASSUME InvestigationsAssumption ==
  Chief \in Accounts /\ Sweeper \notin Accounts /\ Named \subseteq Accounts /\ Granted \subseteq Roles
    /\ Folders # {} /\ Instants \subseteq Nat /\ MaxSpan \in Nat

VARIABLES
  accounts,   \* by person: the role in the database and the role in the access token
  folders,    \* investigation documents
  requests,   \* requests under way
  notes,      \* investigation_comments, in the order they were written
  trail,      \* the audit log: the entries that are in it
  rooms,      \* sockets in the rooms of cases: <<person, case, joined as admin>>
  unrecorded, \* history: changes whose entry was lost or never asked for
  casesLeft   \* what remains of the bounds

investigationsVars == <<accounts, folders, requests, notes, trail, rooms, unrecorded, casesLeft>>

ROLE_RANK == [viewer |-> 0, analyst |-> 1, lead |-> 2, admin |-> 3]

Unmade  == [made |-> FALSE, by |-> Chief, members |-> << >>, deleted |-> FALSE,
            from |-> 0, to |-> 0, grown |-> 0]
Made(u, from, to) == [Unmade EXCEPT !.made = TRUE, !.by = u, !.from = from, !.to = to,
                                   !.members = <<[user |-> u, role |-> "lead"]>>]
Least == CHOOSE t \in Instants : \A i \in Instants : t <= i

\* The container of a region is a document beside the cases, which only the sweep makes.
Container == [Unmade EXCEPT !.made = TRUE, !.by = Sweeper, !.from = Least, !.to = Least + MaxSpan]
RealCase(f) == folders[f].by # Sweeper
NoRequest == [st |-> "free", op |-> "none", by |-> Chief, on |-> CHOOSE f \in Folders : TRUE,
              arg |-> << >>, doc |-> Unmade]

-----------------------------------------------------------------------------
(* The two gates *)

\* rbac: the role in the token.
Ranked(u, minimum) == ROLE_RANK[accounts[u].claim] >= ROLE_RANK[minimum]

\* The entry the check finds for a person: the first.
EntriesOf(doc, u) == {n \in DOMAIN doc.members : doc.members[n].user = u}
FirstOf(doc, u)   == CHOOSE n \in EntriesOf(doc, u) : \A m \in EntriesOf(doc, u) : n <= m
EntryFor(doc, u)  == doc.members[FirstOf(doc, u)]

\* canAccessInvestigation.
CanAccess(u, f, minimum) ==
  \/ accounts[u].claim = "admin"
  \/ /\ folders[f].made /\ ~folders[f].deleted
     /\ \/ folders[f].by = u
        \/ EntriesOf(folders[f], u) # {}
             /\ ROLE_RANK[EntryFor(folders[f], u).role] >= ROLE_RANK[minimum]

\* The minimum of each route, at both gates.
Minimum == [create |-> "analyst", from |-> "analyst", to |-> "analyst", delete |-> "analyst",
            member |-> "analyst", comment |-> "analyst", retract |-> "analyst", role |-> "admin"]
OnCase  == [create |-> "viewer", from |-> "lead", to |-> "lead", delete |-> "lead",
            member |-> "lead", comment |-> "analyst", retract |-> "analyst", role |-> "viewer"]
Scoped(op) == op \notin {"create", "role"}

Admitted(u, op, f) == Ranked(u, Minimum[op]) /\ (Scoped(op) => CanAccess(u, f, OnCase[op]))

-----------------------------------------------------------------------------
(* What is listed, opened and offered *)

\* GET /investigations, page after page: the gate, then listInvestigations.
Listed(u) ==
  {f \in Folders : Ranked(u, "analyst") /\ folders[f].made /\ ~folders[f].deleted /\ RealCase(f)
                     /\ (accounts[u].claim = "admin" \/ folders[f].by = u
                           \/ EntriesOf(folders[f], u) # {})}

\* GET /investigations/:id: the gates, then getInvestigation.
Opens(u, f) == CanAccess(u, f, "viewer") /\ folders[f].made /\ ~folders[f].deleted

\* canDeleteInvestigation: the rule of the web client, on the role that GET /auth/me reads
\* from the database.
OffersDeletion(u, f) ==
  \/ accounts[u].role = "admin"
  \/ /\ ROLE_RANK[accounts[u].role] >= ROLE_RANK["analyst"]
     /\ \/ folders[f].by = u
        \/ EntriesOf(folders[f], u) # {}
             /\ ROLE_RANK[EntryFor(folders[f], u).role] >= ROLE_RANK["lead"]

-----------------------------------------------------------------------------
(* Requests *)

InvestigationsInit ==
  /\ accounts = [u \in Accounts |-> [role |-> IF u = Chief THEN "admin" ELSE "analyst",
                                     claim |-> IF u = Chief THEN "admin" ELSE "analyst"]]
  /\ folders \in [Folders -> {Unmade, Container} \cup {Made(u, Least, Least + MaxSpan) : u \in Accounts \ {Chief}}]
  /\ requests = [r \in Requests |-> NoRequest]
  /\ notes = << >> /\ trail = {}
  /\ rooms = {} /\ unrecorded = {}
  /\ casesLeft = [steps |-> MaxCaseSteps, mishaps |-> MaxCasesMishaps]

CaseStep == casesLeft.steps > 0 /\ casesLeft' = [casesLeft EXCEPT !.steps = @ - 1]
BecomeRequest(r, q) == requests' = [requests EXCEPT ![r] = q]
EndRequest(r)       == BecomeRequest(r, NoRequest)

\* What each operation may be asked with.
Arguments(op) ==
  CASE op = "create"  -> {w \in Instants \X Instants : w[1] < w[2] /\ w[2] - w[1] <= MaxSpan}
    [] op \in {"from", "to"} -> Instants
    [] op = "member"  -> Named \X {"viewer", "lead"}
    [] op = "role"    -> Named \X Granted
    [] op = "retract" -> DOMAIN notes
    [] op \in {"delete", "comment"} -> {0}

Admit(r, u, op, f) ==
  /\ requests[r] = NoRequest
  /\ CaseStep
  /\ Admitted(u, op, f)
  /\ op = "create" => ~folders[f].made
  /\ Scoped(op) => folders[f].made
  /\ \E a \in Arguments(op) :
       BecomeRequest(r, [st |-> IF Scoped(op) THEN "admitted" ELSE "loaded", op |-> op, by |-> u,
                         on |-> f, arg |-> a, doc |-> Unmade])
  /\ UNCHANGED <<accounts, folders, notes, trail, rooms, unrecorded>>

\* getInvestigation, and what is refused on what it read.
InOrder(q, doc) ==
  CASE q.op = "from" -> q.arg < doc.to
    [] q.op = "to"   -> doc.from < q.arg
    [] OTHER         -> TRUE
Load(r) ==
  LET q == requests[r]  doc == folders[q.on] IN
  /\ q.st = "admitted"
  /\ IF ~doc.deleted /\ InOrder(q, doc)
       THEN BecomeRequest(r, [q EXCEPT !.st = "loaded", !.doc = doc])
       ELSE EndRequest(r)
  /\ UNCHANGED <<accounts, folders, notes, trail, rooms, unrecorded, casesLeft>>

SaveRequest(r) == BecomeRequest(r, [requests[r] EXCEPT !.st = "saved"])
PutFolder(f, doc) == folders' = [folders EXCEPT ![f] = doc]

Create(r) ==
  LET q == requests[r] IN
  /\ q.st = "loaded" /\ q.op = "create"
  /\ IF folders[q.on].made THEN EndRequest(r) /\ UNCHANGED folders
     ELSE /\ PutFolder(q.on, Made(q.by, q.arg[1], q.arg[2])) /\ SaveRequest(r)
  /\ UNCHANGED <<accounts, notes, trail, rooms, unrecorded, casesLeft>>

\* doc.save: the paths that were changed, onto the document as it is by now.
SavedWholeDocument(f, q) ==
  CASE q.op = "from"   -> [q.doc EXCEPT !.from = q.arg]
    [] q.op = "to"     -> [q.doc EXCEPT !.to = q.arg]
    [] q.op = "delete" -> [q.doc EXCEPT !.deleted = TRUE]
SavedPaths(f, q) ==
  CASE q.op = "from"   -> [folders[f] EXCEPT !.from = q.arg]
    [] q.op = "to"     -> [folders[f] EXCEPT !.to = q.arg]
    [] q.op = "delete" -> [folders[f] EXCEPT !.deleted = TRUE]
Update(r) ==
  LET q == requests[r] IN
  /\ q.st = "loaded" /\ q.op \in {"from", "to", "delete"}
  /\ PutFolder(q.on, SavedPaths(q.on, q))
  /\ SaveRequest(r)
  /\ UNCHANGED <<accounts, notes, trail, rooms, unrecorded, casesLeft>>

\* addMember: an entry that was found is changed in place, which Mongoose refuses when the
\* list has grown since it was read; another is pushed, whatever the list is by now.
Settled(q)  == EntriesOf(q.doc, q.arg[1]) # {} /\ EntryFor(q.doc, q.arg[1]).role = q.arg[2]
Outdated(q) == EntriesOf(q.doc, q.arg[1]) # {} /\ q.doc.grown # folders[q.on].grown
Pushed(doc, a) == [doc EXCEPT !.grown = @ + 1, !.members = Append(@, [user |-> a[1], role |-> a[2]])]
Changed(doc, q) == [doc EXCEPT !.members[FirstOf(q.doc, q.arg[1])].role = q.arg[2]]
AddMember(r) ==
  LET q == requests[r]  doc == folders[q.on] IN
  /\ q.st = "loaded" /\ q.op = "member"
  /\ IF Outdated(q) /\ ~Settled(q) THEN EndRequest(r) ELSE SaveRequest(r)
  /\ \/ EntriesOf(q.doc, q.arg[1]) = {} /\ PutFolder(q.on, Pushed(doc, q.arg))
     \/ EntriesOf(q.doc, q.arg[1]) # {} /\ ~Settled(q) /\ ~Outdated(q) /\ PutFolder(q.on, Changed(doc, q))
     \/ EntriesOf(q.doc, q.arg[1]) # {} /\ (Settled(q) \/ Outdated(q)) /\ UNCHANGED folders
  /\ UNCHANGED <<accounts, notes, trail, rooms, unrecorded, casesLeft>>

AddComment(r) ==
  LET q == requests[r] IN
  /\ q.st = "loaded" /\ q.op = "comment"
  /\ Len(notes) < MaxNotes
  /\ notes' = Append(notes, [on |-> q.on, author |-> q.by, told |-> TRUE, withdrawn |-> {}])
  /\ BecomeRequest(r, [q EXCEPT !.st = "saved", !.arg = Len(notes) + 1])
  /\ UNCHANGED <<accounts, folders, trail, rooms, unrecorded, casesLeft>>

\* retractComment: only its author, once, and the row stays without its body.
MayRetractOnCase(q) == notes[q.arg].on = q.on
MayRetract(q) == notes[q.arg].on = q.on /\ notes[q.arg].author = q.by
RetractComment(r) ==
  LET q == requests[r] IN
  /\ q.st = "loaded" /\ q.op = "retract"
  /\ IF MayRetract(q) /\ notes[q.arg].told
       THEN /\ notes' = [notes EXCEPT ![q.arg] = [@ EXCEPT !.told = FALSE, !.withdrawn = {q.by}]]
            /\ SaveRequest(r)
       ELSE EndRequest(r) /\ UNCHANGED notes
  /\ UNCHANGED <<accounts, folders, trail, rooms, unrecorded, casesLeft>>

\* POST /admin/users/:id/role.
SetRole(r) ==
  LET q == requests[r] IN
  /\ q.st = "loaded" /\ q.op = "role"
  /\ accounts' = [accounts EXCEPT ![q.arg[1]].role = q.arg[2]]
  /\ SaveRequest(r)
  /\ UNCHANGED <<folders, notes, trail, rooms, unrecorded, casesLeft>>

\* audit: the entry, unless the process dies first or the log cannot be written, which the
\* request does not notice.
Entry(q) == [op |-> q.op, by |-> q.by, on |-> q.on, arg |-> q.arg]
Audit(r) ==
  /\ requests[r].st = "saved"
  /\ trail' = trail \cup {Entry(requests[r])}
  /\ EndRequest(r)
  /\ UNCHANGED <<accounts, folders, notes, rooms, unrecorded, casesLeft>>
AuditLost(r) ==
  /\ requests[r].st = "saved"
  /\ casesLeft.steps > 0 /\ casesLeft.mishaps > 0
  /\ casesLeft' = [steps |-> casesLeft.steps - 1, mishaps |-> casesLeft.mishaps - 1]
  /\ unrecorded' = unrecorded \cup {Entry(requests[r])}
  /\ EndRequest(r)
  /\ UNCHANGED <<accounts, folders, notes, trail, rooms>>

-----------------------------------------------------------------------------
(* Roles and sockets *)

\* A sign-in or a rotation: the token carries the role of that moment.
SignIn(u) ==
  /\ CaseStep
  /\ accounts[u].claim # accounts[u].role
  /\ accounts' = [accounts EXCEPT ![u].claim = accounts[u].role]
  /\ UNCHANGED <<folders, requests, notes, trail, rooms, unrecorded>>

\* admin:grant, the CLI: it writes no entry.
Grant(u, role) ==
  /\ CaseStep
  /\ accounts' = [accounts EXCEPT ![u].role = role]
  /\ unrecorded' = unrecorded
       \cup {[op |-> "role", by |-> Chief, on |-> NoRequest.on, arg |-> <<u, role>>]}
  /\ UNCHANGED <<folders, requests, notes, trail, rooms>>

\* A socket joins the room of a case, and is never asked to leave it.
JoinRoom(u, f) ==
  /\ CaseStep
  /\ CanAccess(u, f, "viewer")
  /\ folders[f].made
  /\ rooms' = rooms \cup {<<u, f, accounts[u].claim = "admin">>}
  /\ UNCHANGED <<accounts, folders, requests, notes, trail, unrecorded>>
Disconnect(u) ==
  /\ CaseStep
  /\ rooms' = {x \in rooms : x[1] # u}
  /\ UNCHANGED <<accounts, folders, requests, notes, trail, unrecorded>>

InvestigationsNext ==
  \/ \E r \in Requests :
       \/ \E u \in Accounts, op \in DOMAIN Minimum, f \in Folders : Admit(r, u, op, f)
       \/ Load(r)
       \/ Create(r) \/ Update(r) \/ AddMember(r)
       \/ AddComment(r) \/ RetractComment(r) \/ SetRole(r)
       \/ Audit(r) \/ AuditLost(r)
  \/ \E u \in Accounts : SignIn(u) \/ Disconnect(u)
  \/ \E u \in Named, role \in Granted : Grant(u, role)
  \/ \E u \in Accounts, f \in Folders : JoinRoom(u, f)

InvestigationsSpec == InvestigationsInit /\ [][InvestigationsNext]_investigationsVars

-----------------------------------------------------------------------------
(* Properties *)

InvestigationsTypeOK ==
  /\ accounts \in [Accounts -> [role : Roles, claim : Roles]]
  /\ \A f \in Folders :
       /\ folders[f].made \in BOOLEAN /\ folders[f].deleted \in BOOLEAN
       /\ folders[f].by \in Accounts \cup {Sweeper}
       /\ folders[f].members \in Seq([user : Accounts, role : Roles])
  /\ \A r \in Requests : requests[r].st \in {"free", "admitted", "loaded", "saved"}
  /\ \A n \in DOMAIN notes : notes[n].author \in Accounts /\ notes[n].on \in Folders
  /\ rooms \subseteq Accounts \X Folders \X BOOLEAN

\* The trail and the state tell one story.  audit/service.ts, "called from every mutating
\* service method": whoever reads a case, a note or a role finds the entry that explains
\* it, unless that entry was lost or belongs to the CLI.
Explained(op, f, args) ==
  \/ \E e \in trail \cup unrecorded : e.op = op /\ e.on = f /\ e.arg \in args
  \/ \E r \in Requests : requests[r].st = "saved" /\ requests[r].op = op /\ requests[r].on = f
                           /\ requests[r].arg \in args
AccessIsExplained ==
  /\ \A f \in {g \in Folders : folders[g].made} : \A n \in DOMAIN folders[f].members :
       LET m == folders[f].members[n] IN
       \/ m = [user |-> folders[f].by, role |-> "lead"]
       \/ Explained("member", f, {<<m.user, m.role>>})
  /\ \A u \in Accounts : accounts[u].role = (IF u = Chief THEN "admin" ELSE "analyst")
       \/ \E f \in Folders : Explained("role", f, {<<u, accounts[u].role>>})

\* What was withdrawn or deleted stays so, whatever save was under way with what it read
\* before; and a note is withdrawn by nobody but its author.
WithdrawalsStand ==
  /\ \A e \in trail \cup unrecorded :
       /\ e.op = "delete"  => folders[e.on].deleted
       /\ e.op = "retract" => ~notes[e.arg].told
  /\ \A n \in DOMAIN notes : IF notes[n].told THEN notes[n].withdrawn = {}
                                              ELSE notes[n].withdrawn = {notes[n].author}

\* Two readings of one rule: what a list shows can be opened; an analyst is shown every case
\* that opens, but for the containers; and on whatever opens the client offers a deletion
\* exactly to those whom the API would let delete, once the role in the token is the role in
\* the database.
OfferedIsAllowed ==
  \A u \in Accounts : \A f \in Folders :
    /\ f \in Listed(u) => Opens(u, f)
    /\ Opens(u, f) /\ Ranked(u, "analyst") /\ RealCase(f) => f \in Listed(u)
    /\ Opens(u, f) /\ accounts[u].claim = accounts[u].role =>
         OffersDeletion(u, f) = Admitted(u, "delete", f)

\* io.ts, "room joins additionally check investigation membership": who hears the events of
\* a case can open it, but for administrators that were and cases that are deleted.
RoomsAreOfMembers ==
  \A x \in rooms : x[3] \/ folders[x[2]].deleted \/ Opens(x[1], x[2])

CasesAreKept == AccessIsExplained /\ WithdrawalsStand /\ OfferedIsAllowed /\ RoomsAreOfMembers

\* What can be opened is in the list of whoever opens it: false of the code for a viewer, for
\* whom there is no list, and for an administrator, who opens containers.
WhatOpensIsListed == \A u \in Accounts, f \in Folders : Opens(u, f) => f \in Listed(u)

\* investigations/schema.ts and service.ts, "windowEnd must be after windowStart": false of
\* the code when two requests that move its two ends overlap.
WindowIsOrdered == \A f \in Folders : folders[f].made => folders[f].from < folders[f].to

\* schema.ts, "time window must not exceed MAX_WINDOW_DAYS days": false of the code, whose
\* PATCH does not ask.
WindowIsBounded ==
  \A f \in Folders : folders[f].made => folders[f].to <= folders[f].from + MaxSpan

\* A person has one entry on a case: false of the code when two requests add the same
\* person, and the role the trail names last need not be the one the check finds.
OneEntryEach ==
  \A f \in Folders : folders[f].made => \A u \in Accounts : Cardinality(EntriesOf(folders[f], u)) <= 1

=============================================================================

-------------------------- MODULE ClientPermissions -------------------------
(***************************************************************************)
(* Who may do what with one resource of a base: the three permission       *)
(* modals, the modal that configures a guest, the share modal, and the     *)
(* updaters of the server they call.                                       *)
(*                                                                         *)
(* The resource has one permission.  The server keeps the decision about a *)
(* guest twice: with the guest, and in the resource's lists of guests that *)
(* differ from its group of roles.  The client keeps copies of both and    *)
(* changes them by rules of its own before it hears from the server.       *)
(***************************************************************************)
EXTENDS Naturals, FiniteSets

CONSTANTS
  Guests,      \* users that are or can be invited
  GuestRoles,  \* roles in use
  Accesses,    \* groups a permission can be given to
  Resources,   \* kinds of the resource
  MaxAsked,    \* bound: requests under way
  MaxSent      \* bound: requests of one visit of the page

Specific == "specific users only"

\* GROUP_ACCESS_LEVEL
AccessGroup ==
  [access \in {"everyone", "editors and up", "admins and up", "creators only", Specific} |->
     CASE access = "everyone" -> {"creator", "admin", "custom", "editor", "viewer"}
       [] access = "editors and up" -> {"creator", "admin", "custom", "editor"}
       [] access = "admins and up" -> {"creator", "admin"}
       [] access = "creators only" -> {"creator"}
       [] access = Specific -> {}]

ASSUME PermissionsAssumption ==
  /\ GuestRoles \subseteq {"creator", "admin", "custom", "editor", "viewer"}
  /\ "custom" \in GuestRoles
  /\ Accesses \subseteq DOMAIN AccessGroup
  /\ {"editors and up", "admins and up", "creators only"} \subseteq Accesses
  /\ Resources \subseteq {"base", "table", "field"}
  /\ MaxAsked \in Nat /\ MaxSent \in Nat

VARIABLES
  resource,   \* the kind of the resource; it never changes
  granted,    \* the server's record of the permission
  guests,     \* the server's guests
  cachedGrant,   \* the copy of the record in the client's cache
  cachedGuests,    \* its copy of the guests
  workers,    \* guests whose InviteGuestWorker or RemoveGuestWorker is queued
  asked,      \* requests that have not been answered
  permSaving, \* loading of useSaveStatus
  guestModal, \* GuestsModal: closed, or the list it adds to and what it saw
  configured, \* PermissionsModal: nobody, or the guest and the switch shown
  sameAccess, \* history: was the last choice the access it already had?
  sentCount       \* bounded: requests of this visit

permVars == <<resource, granted, guests, cachedGrant, cachedGuests, workers, asked, permSaving,
              guestModal, configured, sameAccess, sentCount>>

GuestChoice == {"unset", "yes", "no"}
Granted == [access : Accesses, allowed : SUBSET Guests, restricted : SUBSET Guests,
            roles : SUBSET GuestRoles]
GuestRecord == [access : GuestRoles \cup {"none", "removed"}, perm : GuestChoice]
Permitted == [Guests -> GuestRecord]
NoGuest == [guest |-> "nobody", was |-> "unset", shown |-> "unset"]

PermTypeOK ==
  /\ resource \in Resources /\ workers \subseteq Guests
  /\ granted \in Granted /\ cachedGrant \in Granted
  /\ guests \in Permitted /\ cachedGuests \in Permitted
  /\ \A r \in asked : /\ r.res.access \in DOMAIN AccessGroup
                      /\ r.people \in Permitted /\ r.answer \in {"none", "ok", "error"}
  /\ permSaving \in BOOLEAN /\ sameAccess \in BOOLEAN /\ sentCount \in 0..MaxSent
  /\ guestModal.list \in {"closed", "allowed", "restricted"}
  /\ configured.guest \in Guests \cup {"nobody"} /\ configured.shown \in GuestChoice

\* The permission the resource has: manageBase, manageTable, editFieldData
DefaultAccess == CASE resource = "base" -> "creators only"
                   [] resource = "table" -> "admins and up"
                   [] resource = "field" -> "editors and up"
DefaultValue == resource = "field"
Says(perm) == IF perm = "unset" THEN DefaultValue ELSE perm = "yes"
YesNo(b) == IF b THEN "yes" ELSE "no"

\* doesGuestHaveAccess
HasAccess(role, access) == role \in AccessGroup[access]

CurrentGuest(g) == guests[g].access \in GuestRoles

-----------------------------------------------------------------------------
(* Guests::Updater, Fields::Updater and their twins of tables and bases    *)

\* update_guests_access
ListGuest(res, g, allow) ==
  IF allow
  THEN [res EXCEPT !.restricted = @ \ {g},
                   !.allowed = IF HasAccess("custom", res.access) THEN @ ELSE @ \cup {g}]
  ELSE [res EXCEPT !.allowed = @ \ {g},
                   !.restricted = IF HasAccess("custom", res.access) THEN @ \cup {g} ELSE @]

\* remove_guest
UnlistGuest(res, g) == [res EXCEPT !.allowed = @ \ {g}, !.restricted = @ \ {g}]

\* Mutant: a guest allowed where the group is not stays restricted.
RelistGuestOnce(res, g, allow) ==
  IF allow = HasAccess("custom", res.access) THEN res ELSE ListGuest(res, g, allow)

\* update_guest
RelistGuest(res, g, allow) ==
  IF allow = HasAccess("custom", res.access) THEN UnlistGuest(res, g)
  ELSE ListGuest(UnlistGuest(res, g), g, allow)

\* Mutant: the lists stay as they were.
AccessOnly(res, people, access) == [res EXCEPT !.access = access]

\* update_access!
ReaccessList(res, people, access) ==
  LET custom == {g \in Guests : people[g].access = "custom"}
      differ == {g \in custom : Says(people[g].perm) # HasAccess("custom", access)}
  IN [res EXCEPT !.access = access,
                 !.allowed = {g \in differ : Says(people[g].perm)},
                 !.restricted = {g \in differ : ~ Says(people[g].perm)}]

\* The answer of the server: User#can?
RoleMay(role) == role = "creator" \/ (role = "admin" /\ resource # "base")

ServerCan(g) ==
  LET role == guests[g].access IN
  CASE role \in {"none", "removed"} -> FALSE
    [] role = "custom" ->
         \/ guests[g].perm = "yes"
         \/ /\ resource # "base" /\ g \notin granted.restricted
            /\ (HasAccess("custom", granted.access) \/ g \in granted.allowed)
    [] role \notin {"none", "removed", "custom"} /\ granted.access = Specific ->
         role = "creator" \/ role \in granted.roles \/ g \in granted.allowed
    [] OTHER -> IF granted.access = DefaultAccess THEN RoleMay(role)
                ELSE HasAccess(role, granted.access)

\* The choice of a custom guest as can of BaseUser finds it.  That for a table
\* is looked for under the table itself and not under its id, and never found.
ClientFinds(g) == IF resource = "table" THEN "unset" ELSE cachedGuests[g].perm

\* Mutant: the default group is compared like any other.
ClientCanByGroup(g) ==
  IF cachedGuests[g].access = "custom" THEN YesNo(Says(ClientFinds(g)))
  ELSE YesNo(HasAccess(cachedGuests[g].access, cachedGrant.access))

\* The answer of the client: can of BaseUser.  The lists of a base and of a
\* table are looked for in the name of the group, which raises an error.
ClientCan(g) ==
  LET role == cachedGuests[g].access IN
  CASE role \in {"none", "removed"} -> "no"
    [] role = "custom" -> YesNo(Says(ClientFinds(g)))
    [] role \notin {"none", "removed", "custom"} /\ cachedGrant.access = Specific ->
         IF role = "creator" \/ role \in cachedGrant.roles THEN "yes"
         ELSE IF resource # "field" THEN "error"
         ELSE YesNo(g \in cachedGrant.allowed \/ RoleMay(role))
    [] OTHER -> YesNo(IF cachedGrant.access = DefaultAccess THEN RoleMay(role)
                      ELSE HasAccess(role, cachedGrant.access))

-----------------------------------------------------------------------------
(* What the server does with each request.                                 *)
NewRole(g, role, perm) == guests' = [guests EXCEPT ![g] = [access |-> role, perm |-> perm]]

\* update_field_permissions!, update_table_permissions!, update_database_permissions!
DecideGuest(g, allow) ==
  /\ CurrentGuest(g)
  /\ IF guests[g].access = "custom" \/ granted.access # Specific
     THEN NewRole(g, "custom", YesNo(allow)) ELSE UNCHANGED guests
  /\ granted' = RelistGuest(granted, g, allow)
  /\ UNCHANGED workers

\* change_access: the lists are cleaned of a custom guest where it has a
\* choice there; for a table or field that may be one of another permission.
ChangeGuestAccess(g, role) ==
  /\ CurrentGuest(g)
  /\ NewRole(g, role, "unset")
  /\ granted' \in
       IF guests[g].access # "custom" THEN {granted}
       ELSE IF guests[g].perm = "unset" /\ resource # "base" THEN {granted, UnlistGuest(granted, g)}
       ELSE IF granted.access # DefaultAccess \/ guests[g].perm # YesNo(DefaultValue)
       THEN {UnlistGuest(granted, g)} ELSE {granted}
  /\ UNCHANGED workers

RemoveGuest(g) ==
  /\ CurrentGuest(g)
  /\ NewRole(g, "removed", "unset")
  /\ workers' = workers \cup {w \in {g} : guests[g].access = "custom"}
  /\ UNCHANGED granted

\* What getPermissions keeps of the switches: a base all, others what differs
KeptSwitch(switch) ==
  IF resource # "base" /\ switch = YesNo(DefaultValue) THEN "unset" ELSE switch

\* update_permissions!
ConfigureGuest(g, switch) ==
  /\ CurrentGuest(g)
  /\ IF guests[g].access # "custom" THEN UNCHANGED <<granted, guests>>
     ELSE /\ granted' = IF switch \in {"unset", guests[g].perm} THEN granted
                        ELSE ListGuest(granted, g, switch = "yes")
          /\ NewRole(g, "custom", KeptSwitch(switch))
  /\ UNCHANGED workers

\* Guests::Creator
InviteGuest(g, role, switch) ==
  LET perm == IF role = "custom" THEN KeptSwitch(switch) ELSE "unset" IN
  /\ guests[g].access = "none"
  /\ NewRole(g, role, perm)
  /\ granted' = IF perm # "unset"
                   /\ (granted.access # DefaultAccess \/ perm # YesNo(DefaultValue))
                THEN ListGuest(granted, g, perm = "yes") ELSE granted
  /\ workers' = workers \cup {w \in {g} : role = "custom"}

\* InviteGuestWorker, RemoveGuestWorker
GuestWorker(g) ==
  /\ g \in workers /\ workers' = workers \ {g}
  /\ granted' = CASE guests[g].access = "removed" -> UnlistGuest(granted, g)
                  [] guests[g].access = "custom" /\ guests[g].perm = "unset"
                     /\ resource # "base" /\ granted.access # DefaultAccess
                       -> ListGuest(granted, g, DefaultValue)
                  [] OTHER -> granted
  /\ UNCHANGED <<resource, guests, cachedGrant, cachedGuests, asked, permSaving, guestModal,
                 configured, sameAccess, sentCount>>

-----------------------------------------------------------------------------
(* The handlers of the client.  A request keeps what the handler will put  *)
(* into the caches when it is answered.                                    *)
PermAsks(r) ==
  /\ Cardinality(asked) < MaxAsked /\ r \notin asked
  /\ asked' = asked \cup {r}
  /\ sentCount < MaxSent /\ sentCount' = sentCount + 1
  /\ UNCHANGED <<resource, granted, guests, workers>>

PermSaves(r) == PermAsks(r) /\ permSaving' = TRUE

NoRecord == [access |-> Specific, allowed |-> {}, restricted |-> {}, roles |-> {}]
NoPeople == [g \in Guests |-> [access |-> "none", perm |-> "unset"]]

PermRequest(op, args, res, people) ==
  [op |-> op, args |-> args, res |-> res, people |-> people, answer |-> "none", closes |-> FALSE]

WithChoice(people, g, allow) == [people EXCEPT ![g].perm = YesNo(allow)]

(* handleChangePermissionAccess: saving is announced before the access is  *)
(* compared with the old one.                                              *)
ChoosesAccess(access) ==
  /\ ~ permSaving
  /\ sameAccess' = (access = cachedGrant.access)
  /\ IF access = cachedGrant.access
     THEN permSaving' = TRUE /\ UNCHANGED <<resource, granted, guests, workers, asked, sentCount>>
     ELSE PermSaves(PermRequest("access", <<access>>, NoRecord, NoPeople))
  /\ UNCHANGED <<cachedGrant, cachedGuests, guestModal, configured>>

(* The guests the modal lists: custom ones without a choice are in the     *)
(* list of those who differ from the group, too.                           *)
Unchosen == {g \in Guests :
  /\ cachedGrant.access # DefaultAccess /\ HasAccess("custom", cachedGrant.access) # DefaultValue
  /\ cachedGuests[g].access = "custom" /\ cachedGuests[g].perm = "unset"}

ShownGuests(list) ==
  {g \in Guests : cachedGuests[g].access \notin {"none", "removed"}} \cap
  CASE list = "allowed" ->
         {g \in cachedGrant.allowed \cup {u \in Unchosen : DefaultValue} :
            cachedGuests[g].access \notin cachedGrant.roles}
    [] list = "restricted" ->
         IF cachedGrant.access = Specific THEN {}
         ELSE cachedGrant.restricted \cup {u \in Unchosen : ~ DefaultValue}

(* handleRemoveGuests: the cached record is changed in place, and of the   *)
(* list the guest is not in.                                               *)
RemovesFromList(g, list) ==
  /\ g \in ShownGuests(list)
  /\ cachedGrant' = IF list = "allowed" THEN [cachedGrant EXCEPT !.restricted = @ \ {g}]
                 ELSE [cachedGrant EXCEPT !.allowed = @ \ {g}]
  /\ PermAsks(PermRequest("decide", <<g, list = "restricted">>, cachedGrant',
                  WithChoice(cachedGuests, g, list = "restricted")))
  /\ UNCHANGED <<cachedGuests, permSaving, guestModal, configured, sameAccess>>

(* handleRemoveRole                                                        *)
RemovesRole(role) ==
  /\ cachedGrant.access = Specific /\ role \in cachedGrant.roles
  /\ cachedGrant' = [cachedGrant EXCEPT !.roles = @ \ {role}]
  /\ PermAsks(PermRequest("roles", <<cachedGrant'.roles>>, cachedGrant', NoPeople))
  /\ UNCHANGED <<cachedGuests, permSaving, guestModal, configured, sameAccess>>

(* handleAddGuests: the function that selects keeps the record it found.   *)
(* The modal of the guests and that of the switches cover the page.        *)
OpensGuests(list) ==
  /\ guestModal.list = "closed" /\ configured.guest = "nobody"
  /\ (list = "restricted" => cachedGrant.access # Specific)
  /\ guestModal' = [list |-> list, saw |-> cachedGrant]
  /\ UNCHANGED <<resource, granted, guests, cachedGrant, cachedGuests, workers, asked, permSaving,
                 configured, sameAccess, sentCount>>

NoModal == [list |-> "closed", saw |-> NoRecord]

ClosesGuests ==
  /\ guestModal.list # "closed" /\ guestModal' = NoModal
  /\ UNCHANGED <<resource, granted, guests, cachedGrant, cachedGuests, workers, asked, permSaving,
                 configured, sameAccess, sentCount>>

(* The record the function keeps is the cached one until a newer comes.    *)
SelectedGrant(res) == cachedGrant' = IF guestModal.saw = cachedGrant THEN res ELSE cachedGrant

SelectsRole(role) ==
  LET res == [guestModal.saw EXCEPT !.roles = @ \cup {role}] IN
  /\ guestModal.list # "closed" /\ guestModal.saw.access = Specific
  /\ role # "custom" /\ role \notin guestModal.saw.roles
  /\ SelectedGrant(res) /\ guestModal' = [guestModal EXCEPT !.saw = res]
  /\ PermAsks([PermRequest("roles", <<res.roles>>, res, NoPeople) EXCEPT !.closes = TRUE])
  /\ UNCHANGED <<cachedGuests, permSaving, configured, sameAccess>>

(* Which guests of GuestsModal can be clicked                              *)
Clickable(g) ==
  LET allow == guestModal.list = "allowed"
      saw == guestModal.saw
      mine == IF allow THEN saw.allowed ELSE saw.restricted
      other == IF allow THEN saw.restricted ELSE saw.allowed
      hasAccess == HasAccess(cachedGuests[g].access, saw.access) \/ cachedGuests[g].access \in saw.roles
  IN /\ cachedGuests[g].access \notin {"none", "removed"}
     /\ g \in other \/ (g \notin mine /\ hasAccess # allow)

SelectsGuest(g) ==
  LET allow == guestModal.list = "allowed"
      saw == guestModal.saw
      res == IF allow THEN [saw EXCEPT !.allowed = @ \cup {g}, !.restricted = @ \ {g}]
             ELSE [saw EXCEPT !.restricted = @ \cup {g}, !.allowed = @ \ {g}]
  IN /\ guestModal.list # "closed" /\ Clickable(g)
     /\ SelectedGrant(res) /\ guestModal' = [guestModal EXCEPT !.saw = res]
     /\ PermAsks([PermRequest("decide", <<g, allow>>, res,
                      [WithChoice(cachedGuests, g, allow) EXCEPT ![g].access = "custom"])
              EXCEPT !.closes = TRUE])
     /\ UNCHANGED <<cachedGuests, permSaving, configured, sameAccess>>

-----------------------------------------------------------------------------
(* The share modal: handleChangeAccess and removeGuestAccess of GuestCard, *)
(* submit of ShareBaseModal.                                               *)
ChangesRole(g, role) ==
  /\ cachedGuests[g].access \notin {role, "none", "removed"}
  /\ PermSaves(PermRequest("role", <<g, role>>, NoRecord, [cachedGuests EXCEPT ![g].access = role]))
  /\ UNCHANGED <<cachedGrant, cachedGuests, guestModal, configured, sameAccess>>

RemovesAccess(g) ==
  /\ cachedGuests[g].access \notin {"none", "removed"}
  /\ PermSaves(PermRequest("remove", <<g>>, NoRecord, [cachedGuests EXCEPT ![g].access = "removed"]))
  /\ UNCHANGED <<cachedGrant, cachedGuests, guestModal, configured, sameAccess>>

InvitesGuest(g, role, switch) ==
  /\ cachedGuests[g].access = "none"
  /\ PermSaves(PermRequest("invite", <<g, role, switch>>, NoRecord, NoPeople))
  /\ UNCHANGED <<cachedGrant, cachedGuests, guestModal, configured, sameAccess>>

(* handleConfigurePermissions: the switches of a base and of its tables    *)
(* are filled in, those of fields when the table is changed.               *)
FilledIn(perm) == YesNo(Says(perm))

OpensSwitches(g) ==
  /\ cachedGuests[g].access = "custom"
  /\ configured.guest = "nobody" /\ guestModal.list = "closed"
  /\ LET perm == cachedGuests[g].perm IN
     configured' = [guest |-> g, was |-> perm,
                    shown |-> IF resource = "field" THEN perm ELSE FilledIn(perm)]
  /\ UNCHANGED <<resource, granted, guests, cachedGrant, cachedGuests, workers, asked, permSaving,
                 guestModal, sameAccess, sentCount>>

(* togglePermissions, and what puts the switches back: another table is    *)
(* shown, or the base, its tables or the fields come anew.                 *)
TogglesSwitch ==
  /\ configured.guest \in Guests
  /\ configured' = [configured EXCEPT !.shown = YesNo(~ Says(@))]
  /\ UNCHANGED <<resource, granted, guests, cachedGrant, cachedGuests, workers, asked, permSaving,
                 guestModal, sameAccess, sentCount>>

SwitchesReset ==
  /\ configured.guest \in Guests
  /\ configured' = [configured EXCEPT !.shown = FilledIn(configured.was)]
  /\ UNCHANGED <<resource, granted, guests, cachedGrant, cachedGuests, workers, asked, permSaving,
                 guestModal, sameAccess, sentCount>>

ClosesSwitches ==
  /\ configured.guest \in Guests /\ configured' = NoGuest
  /\ UNCHANGED <<resource, granted, guests, cachedGrant, cachedGuests, workers, asked, permSaving,
                 guestModal, sameAccess, sentCount>>

(* updatePermissions                                                       *)
SubmitsSwitches ==
  /\ configured.guest \in Guests
  /\ LET g == configured.guest IN
     PermSaves(PermRequest("configure", <<g, configured.shown>>, NoRecord,
                   [cachedGuests EXCEPT ![g].perm = KeptSwitch(configured.shown)]))
  /\ UNCHANGED <<cachedGrant, cachedGuests, guestModal, configured, sameAccess>>

-----------------------------------------------------------------------------
(* The server answers; one it cannot serve is an error.                    *)
PermServed(r) ==
  LET g == r.args[1] IN
  CASE r.op = "access" -> /\ granted' = ReaccessList(granted, guests, r.args[1])
                          /\ UNCHANGED <<guests, workers>>
    [] r.op = "roles" -> /\ granted' = [granted EXCEPT !.roles = r.args[1]]
                         /\ UNCHANGED <<guests, workers>>
    [] r.op = "decide" -> DecideGuest(g, r.args[2])
    [] r.op = "role" -> ChangeGuestAccess(g, r.args[2])
    [] r.op = "remove" -> RemoveGuest(g)
    [] r.op = "configure" -> ConfigureGuest(g, r.args[2])
    [] r.op = "invite" -> InviteGuest(g, r.args[2], r.args[3])

PermAnswers(r, answer) == asked' = (asked \ {r}) \cup {[r EXCEPT !.answer = answer]}

PermissionServed(r) ==
  /\ r.answer = "none"
  /\ \/ PermServed(r) /\ PermAnswers(r, "ok")
     \/ UNCHANGED <<granted, guests, workers>> /\ PermAnswers(r, "error")
  /\ UNCHANGED <<resource, cachedGrant, cachedGuests, permSaving, guestModal, configured, sameAccess, sentCount>>

\* Mutant: catchError leaves loading as it is.
SavingAfterError(r) == r.answer = "error"

\* saved and catchError end the status, whoever began it.
SavingAfter(r) == FALSE

(* The rest of a handler.  Where it only asks for a new copy it waits for  *)
(* it; otherwise it sets the caches to what it expects, and a new copy     *)
(* comes later.  After an error nothing is put back.                       *)
PermissionAnswered(r) ==
  /\ r.answer # "none"
  /\ asked' = asked \ {r} /\ permSaving' = SavingAfter(r) /\ sameAccess' = FALSE
  /\ CASE r.answer = "error" -> UNCHANGED <<cachedGrant, cachedGuests>>
       [] r.answer = "ok" /\ r.op \in {"access", "invite"} -> cachedGrant' = granted /\ cachedGuests' = guests
       [] r.answer = "ok" /\ r.op = "decide" -> cachedGrant' = r.res /\ cachedGuests' = r.people
       [] r.answer = "ok" /\ r.op = "roles" -> cachedGrant' = r.res /\ UNCHANGED cachedGuests
       [] OTHER -> cachedGuests' = r.people /\ UNCHANGED cachedGrant
  /\ guestModal' = IF r.closes THEN NoModal ELSE guestModal
  /\ configured' = IF r.op = "configure" /\ r.answer = "ok" THEN NoGuest ELSE configured
  /\ UNCHANGED <<resource, granted, guests, workers, sentCount>>

(* SWR asks for new copies after each mutate, and every 15 seconds while a *)
(* guest is not synced.                                                    *)
PermRevalidates ==
  /\ cachedGrant' = granted /\ cachedGuests' = guests
  /\ UNCHANGED <<resource, granted, guests, workers, asked, permSaving, guestModal,
                 configured, sameAccess, sentCount>>

(* The page is left and opened again.                                      *)
VisitPermissions ==
  /\ asked = {} /\ sentCount > 0
  /\ cachedGrant' = granted /\ cachedGuests' = guests
  /\ permSaving' = FALSE /\ sameAccess' = FALSE
  /\ guestModal' = NoModal /\ configured' = NoGuest /\ sentCount' = 0
  /\ UNCHANGED <<resource, granted, guests, workers, asked>>

PermInit ==
  /\ resource \in Resources
  /\ granted = [access |-> DefaultAccess, allowed |-> {}, restricted |-> {}, roles |-> {}]
  /\ guests \in [Guests -> [access : GuestRoles \cup {"none"}, perm : {"unset"}]]
  /\ cachedGrant = granted /\ cachedGuests = guests
  /\ workers = {} /\ asked = {} /\ permSaving = FALSE /\ sameAccess = FALSE
  /\ guestModal = NoModal /\ configured = NoGuest /\ sentCount = 0

PermissionControls ==
  \/ \E access \in Accesses : ChoosesAccess(access)
  \/ \E g \in Guests, list \in {"allowed", "restricted"} : RemovesFromList(g, list)
  \/ \E role \in GuestRoles : RemovesRole(role)
  \/ \E list \in {"allowed", "restricted"} : OpensGuests(list)

BasePermissionsModal == resource = "base" /\ PermissionControls
TablePermissionsModal == resource = "table" /\ PermissionControls
FieldPermissionsModal == resource = "field" /\ PermissionControls

GuestsModal ==
  \/ \E role \in GuestRoles : SelectsRole(role)
  \/ \E g \in Guests : SelectsGuest(g)
  \/ ClosesGuests

GuestCard ==
  \/ \E g \in Guests, role \in GuestRoles : ChangesRole(g, role)
  \/ \E g \in Guests : RemovesAccess(g) \/ OpensSwitches(g)

ShareBaseModal ==
  \/ GuestCard
  \/ \E g \in Guests, role \in GuestRoles, switch \in {"yes", "no"} :
       InvitesGuest(g, role, switch)

PermissionsModal == TogglesSwitch \/ SwitchesReset \/ SubmitsSwitches \/ ClosesSwitches

PermNext ==
  \/ BasePermissionsModal \/ TablePermissionsModal \/ FieldPermissionsModal
  \/ GuestsModal \/ ShareBaseModal \/ PermissionsModal
  \/ \E r \in asked : PermissionServed(r) \/ PermissionAnswered(r)
  \/ PermRevalidates \/ VisitPermissions \/ \E g \in Guests : GuestWorker(g)

PermSpec == PermInit /\ [][PermNext]_permVars

-----------------------------------------------------------------------------
(* A decision about a custom guest is kept twice, with the guest and in    *)
(* the lists of the resource: whatever was decided, allowed, configured,   *)
(* invited or given another group, the server answers by the guest's own   *)
(* choice.                                                                 *)
ChoiceHonoured ==
  \A g \in Guests :
    guests[g].access = "custom" /\ guests[g].perm # "unset" =>
      ServerCan(g) = (guests[g].perm = "yes")

(* With fresh caches, can of BaseUser answers as User#can? does, but for   *)
(* custom guests without a choice, whom only the server looks up in the    *)
(* lists, for those allowed a table, whose choice the client does not      *)
(* find, and for resources given to specific users, where the client falls *)
(* through to the role's list or raises an error.                          *)
AnswersAgree ==
  cachedGrant = granted /\ cachedGuests = guests =>
    \A g \in Guests : ClientCan(g) # YesNo(ServerCan(g)) =>
      \/ guests[g].access = "custom" /\ guests[g].perm = "unset"
      \/ guests[g].access = "custom" /\ guests[g].perm = "yes" /\ resource = "table"
      \/ granted.access = Specific /\ (resource # "field" \/ guests[g].access = "admin")

(* The status "Saving" ends with the requests, and with it the lock of the *)
(* access menus, except after the access was chosen that is already set.   *)
SavingEnds == permSaving /\ asked = {} => sameAccess

(* What the owner decides about a guest, in the lists or with the switches *)
(* of the permissions modal, is what the server answers from then on: a    *)
(* guest who is allowed is allowed, and a custom one restricted is not.    *)
DecisionTakes ==
  [][\A r \in asked : \A g \in Guests : \A allow \in BOOLEAN :
       /\ [r EXCEPT !.answer = "ok"] \in asked' \ asked /\ r.answer = "none" /\ r \notin asked'
       /\ \/ r.op = "decide" /\ r.args = <<g, allow>>
          \/ r.op = "configure" /\ r.args = <<g, YesNo(allow)>> /\ guests[g].access = "custom"
       /\ allow \/ guests'[g].access = "custom"
       => ServerCan(g)' = allow]_permVars
=============================================================================

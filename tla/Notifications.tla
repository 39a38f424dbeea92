---------------------------- MODULE Notifications ----------------------------
(***************************************************************************)
(* CheckNotifications (workspacehelper/tfc_org.go): notifications of the   *)
(* workspace that differ from all of the spec are deleted; then the list   *)
(* is read again, and those of the spec are created whose name it lacks.   *)
(***************************************************************************)
EXTENDS Reconciling

CONSTANT Unlisted    \* contents that Terraform Cloud does not list as they are

\* A notification is its name and its content: type, URL, token, recipients
\* and so on.  Two that agree in both are one.
VARIABLE notifications

\* A token may be kept to itself, an empty list may come back as none.
listed(n) == IF n.content \in Unlisted THEN [n EXCEPT !.content = None] ELSE n

compareNotifications(wsNotification, specNotification) ==
  listed(wsNotification) = specNotification

specNotifications == copy.notifications
Named(list, name) == \E n \in list : n.name = name

\* Mutant: notifications are told apart by name.
FindExtraNames(next) ==
  /\ pc = "notifications"
  /\ memory' = [toRemove |-> {n \in notifications : ~\E i \in DOMAIN specNotifications :
                                specNotifications[i].name = n.name}]
  /\ Goto("removeNotifications")
  /\ UNCHANGED notifications

FindExtraNotifications(next) ==
  /\ pc = "notifications"
  /\ IF notifications = {} /\ specNotifications = <<>>
       THEN Goto(next) /\ UNCHANGED memory
       ELSE /\ memory' = [toRemove |->
                 {n \in notifications : ~\E i \in DOMAIN specNotifications :
                                        compareNotifications(n, specNotifications[i])}]
            /\ Goto("removeNotifications")
  /\ UNCHANGED notifications

\* One that a user has deleted in the meantime is an error; one that a user has
\* changed is deleted all the same (UserChangesNotifications).
RemoveNotification ==
  /\ pc = "removeNotifications"
  /\ \E n \in memory.toRemove :
       IF n \in notifications
         THEN /\ notifications' = notifications \ {n}
              /\ memory' = [toRemove |-> memory.toRemove \ {n}]
              /\ Goto("removeNotifications")
         ELSE Return /\ UNCHANGED notifications

\* Mutant: only a workspace without notifications gets them.
FindFirstNotifications ==
  /\ pc = "removeNotifications"
  /\ memory.toRemove = {}
  /\ memory' = [toAdd |-> IF notifications = {} THEN DOMAIN specNotifications ELSE {}]
  /\ Goto("addNotifications")
  /\ UNCHANGED notifications

\* What is to be added is known by its place in the spec.
FindMissingNotifications ==
  /\ pc = "removeNotifications"
  /\ memory.toRemove = {}
  /\ memory' = [toAdd |-> {i \in DOMAIN specNotifications :
                             ~Named(notifications, specNotifications[i].name)}]
  /\ Goto("addNotifications")
  /\ UNCHANGED notifications

AddNotification ==
  /\ pc = "addNotifications"
  /\ \E i \in memory.toAdd :
       /\ \A j \in memory.toAdd : i <= j
       /\ notifications' = notifications \cup {specNotifications[i]}
       /\ memory' = [toAdd |-> memory.toAdd \ {i}]
  /\ Goto("addNotifications")

NotificationsChecked(next) ==
  /\ pc = "addNotifications"
  /\ memory.toAdd = {}
  /\ memory' = None
  /\ Goto(next)
  /\ UNCHANGED notifications

notificationSteps(next) ==
  \/ FindExtraNotifications(next) \/ RemoveNotification \/ FindMissingNotifications
  \/ AddNotification \/ NotificationsChecked(next)

\* A user deletes or changes a notification in Terraform Cloud.  The code remembers
\* IDs: the notification it is about to delete is the changed one.
UserChangesNotifications(contents) ==
  \E n \in notifications :
    \/ notifications' = notifications \ {n} /\ UNCHANGED memory
    \/ \E c \in contents :
         LET changed(list) == (list \ {n}) \cup {[n EXCEPT !.content = c]}
         IN /\ notifications' = changed(notifications)
            /\ IF pc = "removeNotifications" /\ n \in memory.toRemove
                 THEN memory' = [toRemove |-> changed(memory.toRemove)]
                 ELSE UNCHANGED memory

\* The workspace has the notifications of spec s.
WantedNotifications(s) == {s.notifications[i] : i \in DOMAIN s.notifications}
NotificationsOf(s) == notifications = WantedNotifications(s)
=============================================================================

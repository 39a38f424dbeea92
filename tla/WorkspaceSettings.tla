-------------------------- MODULE WorkspaceSettings --------------------------
(***************************************************************************)
(* CheckWorkspace (workspacehelper/tfc_org.go): the workspace is read or   *)
(* created, and its SSH key, Terraform version and agent pool are brought  *)
(* to those of the spec.  The comparison is with the record that was read  *)
(* at the beginning; that of a workspace just created has an ID only.      *)
(***************************************************************************)
EXTENDS Reconciling

CONSTANTS
  Versions, Latest,  \* of Terraform, and what "latest" stands for
  SSHKeys,           \* a key stands for its ID and its name
  AgentPools,
  AgentPoolNamed     \* a function from names to AgentPools

ASSUME WorkspaceSettingsAssumption ==
  /\ Latest \in Versions
  /\ SSHKeys \cup AgentPools \subseteq Resources
  /\ DOMAIN AgentPoolNamed \cap AgentPools = {}
  /\ \A name \in DOMAIN AgentPoolNamed : AgentPoolNamed[name] \in AgentPools
  /\ \A s \in Specs : /\ s.sshKey \in SSHKeys \cup {None}
                     /\ s.terraformVersion \in Versions \cup {None}
                     /\ s.agentPoolID \in AgentPools \cup {None}
                     /\ s.agentPoolName \in DOMAIN AgentPoolNamed \cup {None}

VARIABLE workspace   \* in Terraform Cloud, or None

Workspace ==
  [sshKey: SSHKeys \cup {None}, terraformVersion: Versions, agentPool: AgentPools \cup {None}]

\* &tfc.Workspace{ID: id}: no name, no version, no agent pool.
OnlyID == [sshKey |-> None, terraformVersion |-> None, agentPool |-> None]

ReadWorkspace ==
  /\ pc = "readWorkspace"
  /\ IF workspace = None
       THEN Goto("createWorkspace") /\ UNCHANGED memory
       ELSE Goto("sshKey") /\ memory' = workspace
  /\ UNCHANGED workspace

\* Mutant: a version that is not set is passed on.
CreateWorkspaceUnversioned ==
  /\ pc = "createWorkspace"
  /\ workspace' = [OnlyID EXCEPT !.terraformVersion = copy.terraformVersion]
  /\ memory' = OnlyID
  /\ Goto("sshKey")

\* The pool's ID comes before its name; an unknown name or ID is an error.
CreateWorkspace ==
  /\ pc = "createWorkspace"
  /\ LET pool == IF copy.agentPoolID = None /\ copy.agentPoolName # None
                   THEN AgentPoolNamed[copy.agentPoolName] ELSE copy.agentPoolID
     IN IF pool \in organization \cup {None}
          THEN /\ workspace' =
                    [sshKey |-> None, agentPool |-> pool,
                     terraformVersion |-> IF copy.terraformVersion = None THEN Latest
                                                                ELSE copy.terraformVersion]
               /\ memory' = OnlyID
               /\ Goto("sshKey")
          ELSE Return /\ UNCHANGED workspace

\* Mutant: the key that the workspace has is left alone.
CheckMissingSSHKey ==
  /\ pc = "sshKey"
  /\ IF copy.sshKey \notin organization \cup {None}
       THEN Return /\ UNCHANGED workspace
       ELSE /\ Goto("terraformVersion")
            /\ workspace' = [workspace EXCEPT !.sshKey = IF @ = None THEN copy.sshKey ELSE @]
            /\ UNCHANGED memory

\* A key of the spec is assigned in every reconcile, one that is not in the
\* organization is an error; without one in the spec the key is unassigned.
CheckSSHKey ==
  /\ pc = "sshKey"
  /\ IF copy.sshKey \notin organization \cup {None}
       THEN Return /\ UNCHANGED workspace
       ELSE /\ Goto("terraformVersion")
            /\ workspace' = IF copy.sshKey # None \/ memory.sshKey # None
                              THEN [workspace EXCEPT !.sshKey = copy.sshKey] ELSE workspace
            /\ UNCHANGED memory

\* An update with an empty version, which an unset one causes in every
\* reconcile, leaves the version as it is.
SetTerraformVersion ==
  /\ pc = "terraformVersion"
  /\ Goto("agentPool")
  /\ workspace' = IF copy.terraformVersion \notin {None, memory.terraformVersion}
                    THEN [workspace EXCEPT !.terraformVersion = copy.terraformVersion]
                    ELSE workspace
  /\ UNCHANGED memory

\* Only the pool's ID is compared, but its name comes first when it is updated,
\* where an unknown pool is an error.
\* The update names the workspace by the record that was read: for one that was
\* just created the client refuses the empty name.
UpdateAgentPool(next) ==
  /\ pc = "agentPool"
  /\ LET pool == IF copy.agentPoolName # None THEN AgentPoolNamed[copy.agentPoolName]
                                              ELSE copy.agentPoolID
     IN IF memory.agentPool \in {copy.agentPoolID, pool}
          THEN Goto(next) /\ memory' = None /\ UNCHANGED workspace
        ELSE IF memory # OnlyID /\ pool \in organization \cup {None}
          THEN /\ workspace' = [workspace EXCEPT !.agentPool = pool]
               /\ Goto(next) /\ memory' = None
        ELSE Return /\ UNCHANGED workspace

settingsSteps(next) ==
  ReadWorkspace \/ CreateWorkspace \/ CheckSSHKey \/ SetTerraformVersion \/ UpdateAgentPool(next)

\* A user changes a setting in Terraform Cloud.
UserChangesSettings ==
  /\ workspace # None
  /\ \/ \E k \in SSHKeys \cap organization : workspace' = [workspace EXCEPT !.sshKey = k]
     \/ \E v \in Versions : workspace' = [workspace EXCEPT !.terraformVersion = v]
     \/ \E p \in (AgentPools \cap organization) \cup {None} : workspace' = [workspace EXCEPT !.agentPool = p]

\* A pool that is given by its name may be missing, see AgentPoolApplied; by name
\* and ID it may be either.
PoolsOf(s) ==
  {s.agentPoolID} \cup (IF s.agentPoolName = None THEN {} ELSE {AgentPoolNamed[s.agentPoolName]})

\* The workspace has the settings of spec s.
SettingsOf(s) ==
  /\ workspace # None
  /\ workspace.sshKey = s.sshKey
  /\ s.terraformVersion \in {None, workspace.terraformVersion}
  /\ workspace.agentPool \in PoolsOf(s)
=============================================================================

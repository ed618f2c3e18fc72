---------------------------------- MODULE Ports ----------------------------------
(***************************************************************************)
(* The engine's external ports: what one call of a model or of a preset    *)
(* tool does, and the list that holds the history they are given.  The     *)
(* parts share no state, so a behaviour explores the calls of one and      *)
(* leaves the others as they were.                                         *)
(***************************************************************************)
EXTENDS ModelCall, SseReader, TextEdit, FileMutation, Shell, AgentTools, Questions,
        ToolPolicies, HistoryList

VARIABLE port

portsVars == <<port, callVars, sseVars, edit, fileVars, shellVars, agentVars, interview, policyVars,
              listVars>>

AnyMutation == CHOOSE c \in MutationCalls : TRUE
AnyKind == CHOOSE k \in Kinds : TRUE

(* A port that is not explored starts in one of its states.                *)
PortsInit ==
    /\ port \in {"model", "sse", "edit", "files", "shell", "agents", "questions", "toolkit", "history"}
    /\ CallInit /\ (port # "model" => call = CHOOSE c \in Calls : c.api = "chat")
    /\ SseInit
    /\ IF port = "edit" THEN EditInit ELSE edit = EditOf(<<>>, <<"a">>, <<"b">>, FALSE)
    /\ FileInit /\ (port # "files" => file = NoFile /\ \A m \in Mutations : work[m] = Worker(AnyMutation))
    /\ ShellInit /\ (port # "shell" => bash.tree = "group")
    /\ AgentsInit
    /\ QuestionsInit /\ (port # "questions" => interview.kind = AnyKind /\ interview.required /\ interview.alone)
    /\ PoliciesInit /\ (port # "toolkit" => outer = "retry")
    /\ HistoryInit /\ (port # "history" => messages = <<1>>)

PortsNext ==
    \/ /\ port = "model" /\ CallNext
       /\ UNCHANGED <<port, sseVars, edit, fileVars, shellVars, agentVars, interview, policyVars, listVars>>
    \/ /\ port = "sse" /\ SseNext
       /\ UNCHANGED <<port, callVars, edit, fileVars, shellVars, agentVars, interview, policyVars, listVars>>
    \/ /\ port = "edit" /\ EditNext
       /\ UNCHANGED <<port, callVars, sseVars, fileVars, shellVars, agentVars, interview, policyVars, listVars>>
    \/ /\ port = "files" /\ FileNext
       /\ UNCHANGED <<port, callVars, sseVars, edit, shellVars, agentVars, interview, policyVars, listVars>>
    \/ /\ port = "shell" /\ ShellNext
       /\ UNCHANGED <<port, callVars, sseVars, edit, fileVars, agentVars, interview, policyVars, listVars>>
    \/ /\ port = "agents" /\ AgentsNext
       /\ UNCHANGED <<port, callVars, sseVars, edit, fileVars, shellVars, interview, policyVars, listVars>>
    \/ /\ port = "questions" /\ QuestionsNext
       /\ UNCHANGED <<port, callVars, sseVars, edit, fileVars, shellVars, agentVars, policyVars, listVars>>
    \/ /\ port = "toolkit" /\ PoliciesNext
       /\ UNCHANGED <<port, callVars, sseVars, edit, fileVars, shellVars, agentVars, interview, listVars>>
    \/ /\ port = "history" /\ HistoryNext
       /\ UNCHANGED <<port, callVars, sseVars, edit, fileVars, shellVars, agentVars, interview, policyVars>>

PortsSpec == PortsInit /\ [][PortsNext]_portsVars
=============================================================================

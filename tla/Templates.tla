------------------------------ MODULE Templates ------------------------------
(***************************************************************************)
(* The reply templates, the settings that pick one, and the text of an      *)
(* automatic reply: src/src/services/template.service.js over               *)
(* template.repository.js, setting.service.js over setting.repository.js,   *)
(* and maybeReply from _resolveBody on, of                                  *)
(* src/src/services/autoReply.service.js.  Whether a message is answered at *)
(* all is ConversationHandling.                                             *)
(*                                                                         *)
(* An action is one statement; setting a default takes two of them, and a   *)
(* reply reads the settings and the templates one after the other.          *)
(***************************************************************************)
EXTENDS Naturals, FiniteSets

CONSTANTS
    Template,     \* ids of the templates (autoincrement, never reused)
    Editor,       \* requests handled at the same time
    MaxRequests,  \* bound: how many requests there are
    TableFaults   \* subset of {"dbError"}: a statement may throw

ASSUME TemplateAssumption == Template \subseteq Nat \ {0}
ASSUME EditorAssumption   == IsFiniteSet(Editor)

VARIABLES
    state,     \* of each template: "none" before, "gone" after it exists
    isDefault, \* its isDefault column
    usage,     \* its usageCount
    setting,   \* AUTO_REPLY_BODY (is there a text?) and AUTO_REPLY_TEMPLATE_ID
    editor,    \* each request
    requests,  \* how many there were
    raced,     \* history: two requests set a default at the same time
    promised,  \* history: a default was set, and nobody unset it or failed in setting one
    disturbed, \* history: requests during which a template or a setting changed
    sent,      \* history: replies sent with each template
    missed     \* history: those whose use could not be counted

table       == <<state, isDefault, usage>>
watched     == <<raced, promised, disturbed>>
uses        == <<sent, missed>>
templateVars == <<table, setting, editor, requests, watched, uses>>

NoTemplate == 0
Flag       == {"yes", "no", "keep"}

\* A create has what the row is to be in flag and active, an update what is to change.
EditorState ==
    [pc : {"idle", "clear", "insert", "find", "write", "look", "delete", "literal", "explicit",
           "get", "default", "send", "log", "count", "silent"},
     id : Template \cup {NoTemplate}, flag : Flag, active : Flag]

IdleEditor == [pc |-> "idle", id |-> NoTemplate, flag |-> "keep", active |-> "keep"]

TemplatesInit ==
    /\ state     = [i \in Template |-> "none"]
    /\ isDefault = [i \in Template |-> FALSE]
    /\ usage     = [i \in Template |-> 0]
    /\ setting   = [literal |-> FALSE, id |-> NoTemplate, number |-> TRUE]
    /\ editor    = [x \in Editor |-> IdleEditor]
    /\ requests  = 0
    /\ raced = FALSE /\ promised = FALSE /\ disturbed = {}
    /\ sent   = [i \in Template |-> 0]
    /\ missed = [i \in Template |-> 0]

Exists(i)  == state[i] \in {"active", "inactive"}
Defaults   == {i \in Template : Exists(i) /\ isDefault[i]}

EditorAt(x, pc) == editor[x].pc = pc
Onward(x, pc)   == editor' = [editor EXCEPT ![x].pc = pc]
Done(x)         == editor' = [editor EXCEPT ![x] = IdleEditor]

\* Has cleared the defaults and is about to write the new one.
Setting(x) == editor[x].pc \in {"insert", "write"} /\ editor[x].flag = "yes"

\* What every change of a template or of a setting means to the requests under way.
Disturbs == disturbed' = Editor

-----------------------------------------------------------------------------
(* Requests.                                                               *)

BeginRequest(x, pc, id, flag, active) ==
    /\ editor[x].pc \in {"idle", "silent"}
    /\ requests < MaxRequests
    /\ requests' = requests + 1
    /\ editor' = [editor EXCEPT ![x] = [pc |-> pc, id |-> id, flag |-> flag, active |-> active]]
    /\ disturbed' = disturbed \ {x}
    /\ UNCHANGED <<table, setting, raced, promised, uses>>

\* Bound: a create finds an id.
Creating(x) == editor[x].pc \in {"clear", "insert"} /\ editor[x].id = NoTemplate
Room == Cardinality({x \in Editor : Creating(x)}) < Cardinality({i \in Template : state[i] = "none"})

AskCreate(x) ==
    \E flag, active \in {"yes", "no"} :
        /\ Room
        /\ BeginRequest(x, IF flag = "yes" THEN "clear" ELSE "insert", NoTemplate, flag, active)

AskUpdate(x) ==
    \E i \in Template, flag, active \in Flag : BeginRequest(x, "find", i, flag, active)

AskDelete(x) == \E i \in Template : BeginRequest(x, "look", i, "keep", "keep")

\* maybeReply comes to _resolveBody.
AskReply(x) == BeginRequest(x, "literal", NoTemplate, "keep", "keep")

\* PUT /settings upserts the row, whose type is "string" unless the request says
\* otherwise: an id may be stored as text.  DELETE /settings/:key removes it.
Configure(x) ==
    /\ editor[x].pc \in {"idle", "silent"}
    /\ requests < MaxRequests
    /\ requests' = requests + 1
    /\ \/ \E on \in BOOLEAN : setting' = [setting EXCEPT !.literal = on]
       \/ \E i \in Template, number \in BOOLEAN :
             setting' = [setting EXCEPT !.id = i, !.number = number]
       \/ setting' = [setting EXCEPT !.id = NoTemplate]
    /\ editor' = [editor EXCEPT ![x] = IdleEditor]
    /\ Disturbs
    /\ UNCHANGED <<table, raced, promised, uses>>

-----------------------------------------------------------------------------
(* TemplateService.                                                        *)

\* Bug: an update clears the defaults before it looks the template up.
Find_ClearsFirst(x) ==
    /\ EditorAt(x, "find")
    /\ isDefault' = [i \in Template |-> isDefault[i] /\ editor[x].flag # "yes"]
    /\ IF Exists(editor[x].id) THEN Onward(x, "write") ELSE Done(x)
    /\ Disturbs
    /\ UNCHANGED <<state, usage, setting, requests, raced, promised, uses>>

\* Template not found: 404.
Find(x) ==
    /\ EditorAt(x, "find")
    /\ IF ~Exists(editor[x].id) THEN Done(x)
       ELSE Onward(x, IF editor[x].flag = "yes" THEN "clear" ELSE "write")
    /\ UNCHANGED <<table, setting, requests, watched, uses>>

\* Bug: only active templates lose the flag.
ClearDefault_ActiveOnly(x) ==
    /\ EditorAt(x, "clear")
    /\ isDefault' = [i \in Template |-> state[i] = "inactive" /\ isDefault[i]]
    /\ Onward(x, IF editor[x].id = NoTemplate THEN "insert" ELSE "write")
    /\ raced' = (\E y \in Editor \ {x} : Setting(y))
    /\ Disturbs
    /\ UNCHANGED <<state, usage, setting, requests, promised, uses>>

\* clearDefault; the history notes whether another request has done so and has not
\* written its default yet.
ClearDefault(x) ==
    /\ EditorAt(x, "clear")
    /\ isDefault' = [i \in Template |-> FALSE]
    /\ Onward(x, IF editor[x].id = NoTemplate THEN "insert" ELSE "write")
    /\ raced' = (\E y \in Editor \ {x} : Setting(y))
    /\ Disturbs
    /\ UNCHANGED <<state, usage, setting, requests, promised, uses>>

Insert(x) ==
    /\ EditorAt(x, "insert")
    /\ \E i \in Template :
          /\ state[i] = "none" /\ \A j \in Template : state[j] = "none" => i <= j
          /\ state' = [state EXCEPT ![i] = IF editor[x].active = "yes" THEN "active"
                                           ELSE "inactive"]
          /\ isDefault' = [isDefault EXCEPT ![i] = editor[x].flag = "yes"]
    /\ promised' = (promised \/ Setting(x))
    /\ Done(x) /\ Disturbs
    /\ UNCHANGED <<usage, setting, requests, raced, uses>>

\* Of a row that is gone (P2025), or that has the flag taken: no default is promised any
\* more.
Write(x) ==
    LET i == editor[x].id IN
    /\ EditorAt(x, "write")
    /\ IF Exists(i)
       THEN /\ state' = [state EXCEPT ![i] = CASE editor[x].active = "yes" -> "active"
                                              [] editor[x].active = "no" -> "inactive"
                                              [] OTHER -> @]
            /\ isDefault' = [isDefault EXCEPT ![i] = CASE editor[x].flag = "yes" -> TRUE
                                                      [] editor[x].flag = "no" -> FALSE
                                                      [] OTHER -> @]
            /\ promised' = (Setting(x) \/ (promised /\ ~(isDefault[i] /\ editor[x].flag = "no")))
       ELSE /\ UNCHANGED <<state, isDefault>>
            /\ promised' = (promised /\ ~Setting(x))
    /\ Done(x) /\ Disturbs
    /\ UNCHANGED <<usage, setting, requests, raced, uses>>

\* delete looks the template up, too ...
Look(x) ==
    /\ EditorAt(x, "look")
    /\ IF Exists(editor[x].id) THEN Onward(x, "delete") ELSE Done(x)
    /\ UNCHANGED <<table, setting, requests, watched, uses>>

\* ... but deleting what is gone meanwhile is no error.
Delete(x) ==
    LET i == editor[x].id IN
    /\ EditorAt(x, "delete")
    /\ state' = [state EXCEPT ![i] = "gone"]
    /\ isDefault' = [isDefault EXCEPT ![i] = FALSE]
    /\ promised' = (promised /\ ~isDefault[i])
    /\ Done(x) /\ Disturbs
    /\ UNCHANGED <<usage, setting, requests, raced, uses>>

-----------------------------------------------------------------------------
(* _resolveBody, and the rest of maybeReply.                               *)

Sends(x, i) == editor' = [editor EXCEPT ![x].pc = "send", ![x].id = i]

\* AUTO_REPLY_BODY.
ReadLiteral(x) ==
    /\ EditorAt(x, "literal")
    /\ Onward(x, IF setting.literal THEN "send" ELSE "explicit")
    /\ UNCHANGED <<table, setting, requests, watched, uses>>

\* AUTO_REPLY_TEMPLATE_ID; an id stored as text is refused by the query for it, and the
\* error taken for "no such template".
ReadTemplateId(x) ==
    /\ EditorAt(x, "explicit")
    /\ IF setting.id # NoTemplate /\ setting.number
       THEN editor' = [editor EXCEPT ![x].pc = "get", ![x].id = setting.id]
       ELSE Onward(x, "default")
    /\ UNCHANGED <<table, setting, requests, watched, uses>>

\* Bug: no reply when the template that is configured cannot be used.
GetTemplate_NoFallback(x) ==
    /\ EditorAt(x, "get")
    /\ editor' = [editor EXCEPT
          ![x] = IF state[@.id] = "active" THEN [@ EXCEPT !.pc = "send"]
                 ELSE [@ EXCEPT !.pc = "silent", !.id = NoTemplate]]
    /\ UNCHANGED <<table, setting, requests, watched, uses>>

\* Gone, inactive, or the look-up throws: the default is next.
GetTemplate(x) ==
    /\ EditorAt(x, "get")
    /\ editor' = [editor EXCEPT
          ![x] = IF state[@.id] = "active" THEN [@ EXCEPT !.pc = "send"]
                 ELSE [@ EXCEPT !.pc = "default", !.id = NoTemplate]]
    /\ UNCHANGED <<table, setting, requests, watched, uses>>

GetTemplateError(x) ==
    /\ "dbError" \in TableFaults /\ EditorAt(x, "get")
    /\ editor' = [editor EXCEPT ![x].pc = "default", ![x].id = NoTemplate]
    /\ disturbed' = disturbed \cup {x}
    /\ UNCHANGED <<table, setting, requests, raced, promised, uses>>

\* findDefault: the active default, the oldest one if there are several; no text, no reply.
FindDefault(x) ==
    LET usable == {i \in Defaults : state[i] = "active"} IN
    /\ EditorAt(x, "default")
    /\ IF usable = {} THEN Onward(x, "silent")
       ELSE \E i \in usable : (\A j \in usable : i <= j) /\ Sends(x, i)
    /\ UNCHANGED <<table, setting, requests, watched, uses>>

\* The reply is sent, or it is not; a literal text is no template's.
SendReply(x) ==
    LET i == editor[x].id IN
    /\ EditorAt(x, "send")
    /\ Onward(x, "log")
    /\ sent' = IF i = NoTemplate THEN sent ELSE [sent EXCEPT ![i] = @ + 1]
    /\ UNCHANGED <<table, setting, requests, watched, missed>>

SendReplyError(x) ==
    /\ EditorAt(x, "send")
    /\ Done(x)
    /\ UNCHANGED <<table, setting, requests, watched, uses>>

\* Bug: the audit row decides whether the use is counted.
LogReply_GatesCount(x) ==
    /\ EditorAt(x, "log")
    /\ IF editor[x].id = NoTemplate \/ "dbError" \in TableFaults THEN Done(x) ELSE Onward(x, "count")
    /\ UNCHANGED <<table, setting, requests, watched, uses>>

\* The audit row, written or not.
LogReply(x) ==
    /\ EditorAt(x, "log")
    /\ IF editor[x].id = NoTemplate THEN Done(x) ELSE Onward(x, "count")
    /\ UNCHANGED <<table, setting, requests, watched, uses>>

\* incrementUsage, of the row if there is one.
CountUse(x) ==
    LET i == editor[x].id IN
    /\ EditorAt(x, "count")
    /\ IF Exists(i) THEN usage' = [usage EXCEPT ![i] = @ + 1] /\ UNCHANGED missed
                    ELSE missed' = [missed EXCEPT ![i] = @ + 1] /\ UNCHANGED usage
    /\ Done(x)
    /\ UNCHANGED <<state, isDefault, setting, requests, watched, sent>>

CountUseError(x) ==
    /\ "dbError" \in TableFaults /\ EditorAt(x, "count")
    /\ missed' = [missed EXCEPT ![editor[x].id] = @ + 1]
    /\ Done(x)
    /\ UNCHANGED <<table, setting, requests, watched, sent>>

\* A statement throws: the request ends there, with the defaults cleared or not.
StatementError(x) ==
    /\ "dbError" \in TableFaults
    /\ editor[x].pc \in {"find", "clear", "insert", "write", "look", "delete",
                         "literal", "explicit", "default"}
    /\ promised' = (promised /\ ~Setting(x))
    /\ Done(x)
    /\ UNCHANGED <<table, setting, requests, raced, disturbed, uses>>

NewRequest(x)  == AskCreate(x) \/ AskUpdate(x) \/ AskDelete(x) \/ AskReply(x) \/ Configure(x)
EditorStep(x) ==
    \/ Find(x) \/ ClearDefault(x) \/ Insert(x) \/ Write(x) \/ Look(x) \/ Delete(x)
    \/ ReadLiteral(x) \/ ReadTemplateId(x) \/ GetTemplate(x) \/ GetTemplateError(x)
    \/ FindDefault(x) \/ SendReply(x) \/ SendReplyError(x) \/ LogReply(x)
    \/ CountUse(x) \/ CountUseError(x) \/ StatementError(x)

\* Sent with template i, and the use not counted yet.
Uncounted(i) == {x \in Editor : editor[x].pc \in {"log", "count"} /\ editor[x].id = i}

\* The process ends between any two statements.
CutRequests ==
    /\ editor'   = [x \in Editor |-> IdleEditor]
    /\ promised' = (promised /\ \A x \in Editor : ~Setting(x))
    /\ missed'   = [i \in Template |-> missed[i] + Cardinality(Uncounted(i))]
    /\ UNCHANGED <<table, setting, requests, raced, disturbed, sent>>

TemplatesNext == CutRequests \/ \E x \in Editor : NewRequest(x) \/ EditorStep(x)

TemplatesSpec == TemplatesInit /\ [][TemplatesNext]_templateVars

-----------------------------------------------------------------------------

TemplatesTypeOK ==
    /\ state \in [Template -> {"none", "active", "inactive", "gone"}]
    /\ isDefault \in [Template -> BOOLEAN] /\ usage \in [Template -> Nat]
    /\ setting \in [literal : BOOLEAN, id : Template \cup {NoTemplate}, number : BOOLEAN]
    /\ editor \in [Editor -> EditorState] /\ requests \in Nat
    /\ raced \in BOOLEAN /\ promised \in BOOLEAN /\ disturbed \subseteq Editor
    /\ sent \in [Template -> Nat] /\ missed \in [Template -> Nat]

\* "keeps at most one default" (template.repository.js): clearing and writing are two
\* statements, with other requests, an error or a kill between them, and still there are
\* two defaults only after two requests had both cleared before either wrote; the next
\* request that sets a default by itself ends that.
OneDefault == raced \/ Cardinality(Defaults) <= 1

\* Setting a default loses none: whatever is created, changed and deleted at the same
\* time, there is a default again once no request is about to write one, unless it was
\* taken away or a request failed after clearing.
DefaultIsKept == promised /\ (\A x \in Editor : ~Setting(x)) => Defaults # {}

\* "AUTO_REPLY_BODY -> AUTO_REPLY_TEMPLATE_ID -> the active default template -> no reply"
\* (autoReply.service.js), read one after the other: a customer is left without a reply
\* only if none of the three had a text, unless one of them changed meanwhile.
SilentOnlyWithoutText ==
    \A x \in Editor \ disturbed : EditorAt(x, "silent") =>
        /\ ~setting.literal
        /\ setting.id # NoTemplate /\ setting.number => state[setting.id] # "active"
        /\ \A i \in Defaults : state[i] # "active"

\* A template's count is of the replies that were sent with it, whatever is answered,
\* edited or killed at the same time, and lacks those only whose count was refused, came
\* after the template was deleted or after the process was killed.
UsageIsCounted ==
    \A i \in Template : sent[i] = usage[i] + Cardinality(Uncounted(i)) + missed[i]
=============================================================================

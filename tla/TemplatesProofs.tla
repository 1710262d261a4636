--------------------------- MODULE TemplatesProofs ---------------------------
(***************************************************************************)
(* The templates for every set of requests: there is at most one default    *)
(* unless two requests set one at the same time, setting one loses none,     *)
(* the uses of a template are counted, and a customer without a reply gets   *)
(* none because there is no text.                                           *)
(*                                                                          *)
(* Between clearing and writing there is no default, and nothing in the     *)
(* table tells that one is coming; so both invariants speak of the requests *)
(* that are in between.                                                     *)
(***************************************************************************)
EXTENDS Templates, TLAPS, FiniteSetTheorems

\* The requests come to their places the way the flag says.
Paths ==
    \A x \in Editor :
        /\ editor[x].pc = "clear" => editor[x].flag = "yes"
        /\ editor[x].pc = "insert" => editor[x].flag # "keep"
        /\ editor[x].pc \in {"find", "write"} => editor[x].id \in Template

\* Rows that do not exist have no flag.
NoGhosts == \A i \in Template : ~Exists(i) => ~isDefault[i]

\* One default, and none while a request is about to write one; one such request.
Alone ==
    ~raced =>
        /\ \A i, j \in Defaults : i = j
        /\ \A x, y \in Editor : Setting(x) /\ Setting(y) => x = y
        /\ \A x \in Editor : Setting(x) => Defaults = {}

\* A default there is, or one is about to be written.
Coming == promised => Defaults # {} \/ \E x \in Editor : Setting(x)

TypeInv == TemplatesTypeOK /\ Paths

TemplatesInv == TypeInv /\ NoGhosts /\ Alone /\ Coming

-----------------------------------------------------------------------------
(* Types.                                                                  *)

LEMMA EditorStates ==
    /\ IdleEditor \in EditorState
    /\ NoTemplate \in Template \cup {NoTemplate}
BY DEF IdleEditor, EditorState, Flag

LEMMA InitTypes == TemplatesInit => TypeInv
<1> SUFFICES ASSUME TemplatesInit PROVE TypeInv
  OBVIOUS
<1>1. editor \in [Editor -> EditorState] /\ requests \in Nat /\ Paths
  BY EditorStates DEF TemplatesInit, Paths, IdleEditor
<1>2. /\ state \in [Template -> {"none", "active", "inactive", "gone"}]
      /\ isDefault \in [Template -> BOOLEAN] /\ usage \in [Template -> Nat]
      /\ setting \in [literal : BOOLEAN, id : Template \cup {NoTemplate}, number : BOOLEAN]
  BY DEF TemplatesInit
<1>3. /\ raced \in BOOLEAN /\ promised \in BOOLEAN /\ disturbed \subseteq Editor
      /\ sent \in [Template -> Nat] /\ missed \in [Template -> Nat]
  BY DEF TemplatesInit
<1>4. QED
  BY <1>1, <1>2, <1>3 DEF TypeInv, TemplatesTypeOK

\* Moves of a request keep the types of requests.
LEMMA Moves ==
    ASSUME TypeInv, NEW x \in Editor
    PROVE  /\ Done(x) => editor' \in [Editor -> EditorState] /\ Paths'
           /\ \A pc \in {"look", "delete", "literal", "explicit", "get",
                         "default", "send", "log", "count", "silent"} :
                 Onward(x, pc) => editor' \in [Editor -> EditorState] /\ Paths'
           /\ \A i \in Template \cup {NoTemplate}, pc \in {"get", "default", "send"} :
                 editor' = [editor EXCEPT ![x].pc = pc, ![x].id = i] =>
                     editor' \in [Editor -> EditorState] /\ Paths'
<1>1. editor \in [Editor -> EditorState] /\ Paths
  BY DEF TypeInv, TemplatesTypeOK
<1>2. ASSUME Done(x) PROVE editor' \in [Editor -> EditorState] /\ Paths'
  BY <1>1, <1>2, EditorStates DEF Done, Paths, IdleEditor
<1>3. ASSUME NEW pc \in {"look", "delete", "literal", "explicit", "get",
                         "default", "send", "log", "count", "silent"}, Onward(x, pc)
      PROVE  editor' \in [Editor -> EditorState] /\ Paths'
  BY <1>1, <1>3 DEF Onward, Paths, EditorState
<1>4. ASSUME NEW i \in Template \cup {NoTemplate}, NEW pc \in {"get", "default", "send"},
             editor' = [editor EXCEPT ![x].pc = pc, ![x].id = i]
      PROVE  editor' \in [Editor -> EditorState] /\ Paths'
  BY <1>1, <1>4 DEF Paths, EditorState
<1>5. QED
  BY <1>2, <1>3, <1>4

\* A request begins.
LEMMA NewRequestTypes ==
    ASSUME TypeInv, NEW x \in Editor, NewRequest(x)
    PROVE  TypeInv'
<1> USE DEF TypeInv, TemplatesTypeOK
<1>1. ASSUME NEW pc \in {"clear", "insert", "find", "look", "literal"},
             NEW id \in Template \cup {NoTemplate}, NEW flag \in Flag, NEW active \in Flag,
             BeginRequest(x, pc, id, flag, active),
             pc = "clear" => flag = "yes", pc = "insert" => flag # "keep",
             pc = "find" => id \in Template
      PROVE  TypeInv'
  <2>1. [pc |-> pc, id |-> id, flag |-> flag, active |-> active] \in EditorState
    BY DEF EditorState
  <2>2. editor' \in [Editor -> EditorState] /\ Paths'
    BY <1>1, <2>1 DEF BeginRequest, Paths
  <2>3. QED
    BY <1>1, <2>2 DEF BeginRequest, table, uses
<1>2. CASE AskCreate(x)
  BY <1>1, <1>2, EditorStates DEF AskCreate, Flag
<1>3. CASE AskUpdate(x)
  BY <1>1, <1>3 DEF AskUpdate
<1>4. CASE AskDelete(x)
  BY <1>1, <1>4 DEF AskDelete, Flag
<1>5. CASE AskReply(x)
  BY <1>1, <1>5, EditorStates DEF AskReply, Flag
<1>6. CASE Configure(x)
  <2>1. editor' \in [Editor -> EditorState] /\ Paths'
    BY <1>6, EditorStates DEF Configure, Paths, IdleEditor
  <2>2. setting' \in [literal : BOOLEAN, id : Template \cup {NoTemplate}, number : BOOLEAN]
    BY <1>6, EditorStates DEF Configure
  <2>3. requests' = requests + 1 /\ disturbed' = Editor
    BY <1>6, Zenon DEF Configure, Disturbs
  <2>4. requests' \in Nat
    BY <2>3
  <2>5. UNCHANGED <<state, isDefault, usage, raced, promised, sent, missed>>
    BY <1>6 DEF Configure, table, uses
  <2>6. QED
    BY <2>1, <2>2, <2>3, <2>4, <2>5
<1>7. QED
  BY <1>2, <1>3, <1>4, <1>5, <1>6 DEF NewRequest

\* A request goes on.
LEMMA EditorStepTypes ==
    ASSUME TypeInv, NEW x \in Editor, EditorStep(x)
    PROVE  TypeInv'
<1>e. /\ editor[x] \in EditorState
      /\ editor[x].id \in Template \cup {NoTemplate} /\ editor[x].flag \in Flag
      /\ Setting(x) \in BOOLEAN
  BY DEF TypeInv, TemplatesTypeOK, EditorState, Setting
<1> USE DEF TypeInv, TemplatesTypeOK, EditorAt, table, watched, uses, Disturbs
<1>1. CASE Find(x)
  <2>1. CASE Exists(editor[x].id)
    <3>1. editor' \in [Editor -> EditorState] /\ Paths'
      BY <1>1, <2>1 DEF Find, Onward, Paths, EditorState
    <3>2. QED
      BY <1>1, <3>1 DEF Find
  <2>2. CASE ~Exists(editor[x].id)
    BY <1>1, <2>2, Moves DEF Find
  <2>3. QED
    BY <2>1, <2>2
<1>2. CASE ClearDefault(x)
  <2>1. editor' \in [Editor -> EditorState] /\ Paths'
    BY <1>2, <1>e DEF ClearDefault, Onward, Paths, EditorState
  <2>2. raced' \in BOOLEAN /\ isDefault' \in [Template -> BOOLEAN]
    BY <1>2 DEF ClearDefault
  <2>3. QED
    BY <1>2, <2>1, <2>2 DEF ClearDefault
<1>3. CASE Insert(x)
  <2>1. /\ state' \in [Template -> {"none", "active", "inactive", "gone"}]
        /\ isDefault' \in [Template -> BOOLEAN]
    BY <1>3 DEF Insert
  <2>2. promised' \in BOOLEAN
    BY <1>3, <1>e DEF Insert
  <2>3. QED
    BY <1>3, <2>1, <2>2, Moves DEF Insert
<1>4. CASE Write(x)
  <2>1. /\ state' \in [Template -> {"none", "active", "inactive", "gone"}]
        /\ isDefault' \in [Template -> BOOLEAN]
    BY <1>4 DEF Write
  <2>2. promised' \in BOOLEAN
    BY <1>4, <1>e DEF Write
  <2>3. QED
    BY <1>4, <2>1, <2>2, Moves DEF Write
<1>5. CASE Look(x)
  BY <1>5, Moves DEF Look
<1>6. CASE Delete(x)
  <2>1. /\ state' \in [Template -> {"none", "active", "inactive", "gone"}]
        /\ isDefault' \in [Template -> BOOLEAN]
    BY <1>6 DEF Delete
  <2>2. promised' \in BOOLEAN
    BY <1>6 DEF Delete
  <2>3. QED
    BY <1>6, <2>1, <2>2, Moves DEF Delete
<1>7. CASE ReadLiteral(x)
  <2>1. editor' \in [Editor -> EditorState] /\ Paths'
    BY <1>7 DEF ReadLiteral, Onward, Paths, EditorState
  <2>2. QED
    BY <1>7, <2>1 DEF ReadLiteral
<1>8. CASE ReadTemplateId(x)
  <2>1. setting.id \in Template \cup {NoTemplate}
    OBVIOUS
  <2>2. editor' \in [Editor -> EditorState] /\ Paths'
    BY <1>8, <2>1, Moves DEF ReadTemplateId
  <2>3. QED
    BY <1>8, <2>2 DEF ReadTemplateId
<1>9. CASE GetTemplate(x)
  <2>1. editor' \in [Editor -> EditorState] /\ Paths'
    BY <1>9, EditorStates DEF GetTemplate, Paths, EditorState
  <2>2. QED
    BY <1>9, <2>1 DEF GetTemplate
<1>10. CASE GetTemplateError(x)
  BY <1>10, Moves, EditorStates DEF GetTemplateError
<1>11. CASE FindDefault(x)
  <2>1. editor' \in [Editor -> EditorState] /\ Paths'
    BY <1>11, Moves DEF FindDefault, Sends, Defaults
  <2>2. QED
    BY <1>11, <2>1 DEF FindDefault
<1>12. CASE SendReply(x)
  <2>1. sent' \in [Template -> Nat]
    <3>1. CASE editor[x].id = NoTemplate
      BY <1>12, <3>1 DEF SendReply
    <3>2. CASE editor[x].id \in Template /\ editor[x].id # NoTemplate
      <4>1. sent[editor[x].id] + 1 \in Nat
        BY <3>2
      <4>2. sent' = [sent EXCEPT ![editor[x].id] = sent[editor[x].id] + 1]
        BY <1>12, <3>2 DEF SendReply
      <4>3. QED
        BY <4>1, <4>2
    <3>3. QED
      BY <1>e, <3>1, <3>2
  <2>2. QED
    BY <1>12, <2>1, Moves DEF SendReply
<1>13. CASE SendReplyError(x)
  BY <1>13, Moves DEF SendReplyError
<1>14. CASE LogReply(x)
  BY <1>14, Moves DEF LogReply
<1>15. CASE CountUse(x)
  <2>1. usage' \in [Template -> Nat] /\ missed' \in [Template -> Nat]
    BY <1>15 DEF CountUse
  <2>2. QED
    BY <1>15, <2>1, Moves DEF CountUse
<1>16. CASE CountUseError(x)
  <2>1. missed' \in [Template -> Nat]
    <3>1. \A i \in Template : missed[i] + 1 \in Nat
      OBVIOUS
    <3>2. missed' = [i \in Template |-> IF i = editor[x].id THEN missed[i] + 1 ELSE missed[i]]
      BY <1>16 DEF CountUseError
    <3>3. QED
      BY <3>1, <3>2
  <2>2. QED
    BY <1>16, <2>1, Moves DEF CountUseError
<1>17. CASE StatementError(x)
  <2>1. promised' \in BOOLEAN
    BY <1>17, <1>e DEF StatementError
  <2>2. QED
    BY <1>17, <2>1, Moves DEF StatementError
<1>18. QED
  BY <1>1, <1>2, <1>3, <1>4, <1>5, <1>6, <1>7, <1>8, <1>9, <1>10, <1>11, <1>12, <1>13, <1>14,
     <1>15, <1>16, <1>17 DEF EditorStep

LEMMA CutRequestsTypes ==
    ASSUME TypeInv, CutRequests
    PROVE  TypeInv'
<1>1. editor' \in [Editor -> EditorState] /\ Paths'
  BY EditorStates DEF CutRequests, Paths, IdleEditor
<1>2. \A i \in Template : Cardinality(Uncounted(i)) \in Nat
  BY EditorAssumption, FS_Subset, FS_CardinalityType DEF Uncounted
<1>3. missed' \in [Template -> Nat]
  BY <1>2 DEF CutRequests, TypeInv, TemplatesTypeOK
<1>4. promised' \in BOOLEAN
  BY DEF CutRequests, TypeInv, TemplatesTypeOK, Setting
<1>5. QED
  BY <1>1, <1>3, <1>4 DEF CutRequests, TypeInv, TemplatesTypeOK, table

-----------------------------------------------------------------------------
(* The default.                                                            *)

\* A step that touches no flag, and neither brings a request between clearing and writing
\* nor takes one from there, keeps everything.
LEMMA QuietKeeps ==
    ASSUME TemplatesInv, UNCHANGED <<state, isDefault, raced, promised>>,
           \A y \in Editor : Setting(y)' <=> Setting(y)
    PROVE  (NoGhosts /\ Alone /\ Coming)'
<1>1. Defaults' = Defaults /\ \A i : Exists(i)' <=> Exists(i)
  BY DEF Defaults, Exists
<1>2. NoGhosts'
  BY <1>1 DEF TemplatesInv, NoGhosts
<1>3. Alone'
  BY <1>1 DEF TemplatesInv, Alone
<1>4. Coming'
  BY <1>1 DEF TemplatesInv, Coming
<1>5. QED
  BY <1>2, <1>3, <1>4

\* The others are where they were.
LEMMA OthersStay ==
    ASSUME TypeInv, NEW x \in Editor, NEW E, editor' = [editor EXCEPT ![x] = E]
    PROVE  /\ \A y \in Editor : y # x => Setting(y)' = Setting(y)
           /\ Setting(x)' <=> E.pc \in {"insert", "write"} /\ E.flag = "yes"
<1>1. editor \in [Editor -> EditorState]
  BY DEF TypeInv, TemplatesTypeOK
<1>2. editor'[x] = E /\ \A y \in Editor : y # x => editor'[y] = editor[y]
  BY <1>1
<1>3. QED
  BY <1>2 DEF Setting

\* Where a move of x leads.
LEMMA MoveSetting ==
    ASSUME TypeInv, NEW x \in Editor
    PROVE  /\ Done(x) => /\ \A y \in Editor : y # x => Setting(y)' = Setting(y)
                         /\ ~Setting(x)'
           /\ \A pc : Onward(x, pc) =>
                 /\ \A y \in Editor : y # x => Setting(y)' = Setting(y)
                 /\ Setting(x)' <=> pc \in {"insert", "write"} /\ editor[x].flag = "yes"
           /\ \A pc, i : editor' = [editor EXCEPT ![x].pc = pc, ![x].id = i] =>
                 /\ \A y \in Editor : y # x => Setting(y)' = Setting(y)
                 /\ Setting(x)' <=> pc \in {"insert", "write"} /\ editor[x].flag = "yes"
<1>1. editor[x] \in EditorState
  BY DEF TypeInv, TemplatesTypeOK
<1>2. ASSUME Done(x)
      PROVE  (\A y \in Editor : y # x => Setting(y)' = Setting(y)) /\ ~Setting(x)'
  <2>1. editor' = [editor EXCEPT ![x] = IdleEditor]
    BY <1>2 DEF Done
  <2>2. IdleEditor.pc \notin {"insert", "write"}
    BY DEF IdleEditor
  <2>3. QED
    BY <2>1, <2>2, OthersStay
<1>3. ASSUME NEW pc, Onward(x, pc)
      PROVE  /\ \A y \in Editor : y # x => Setting(y)' = Setting(y)
             /\ Setting(x)' <=> pc \in {"insert", "write"} /\ editor[x].flag = "yes"
  <2> DEFINE E == [editor[x] EXCEPT !.pc = pc]
  <2>1. editor' = [editor EXCEPT ![x] = E]
    BY <1>3 DEF Onward
  <2>2. E.pc = pc /\ E.flag = editor[x].flag
    BY <1>1 DEF EditorState
  <2> HIDE DEF E
  <2>3. QED
    BY <2>1, <2>2, OthersStay
<1>4. ASSUME NEW pc, NEW i, editor' = [editor EXCEPT ![x].pc = pc, ![x].id = i]
      PROVE  /\ \A y \in Editor : y # x => Setting(y)' = Setting(y)
             /\ Setting(x)' <=> pc \in {"insert", "write"} /\ editor[x].flag = "yes"
  <2> DEFINE E == [editor[x] EXCEPT !.pc = pc, !.id = i]
  <2>1. editor' = [editor EXCEPT ![x] = E]
    BY <1>4 DEF TypeInv, TemplatesTypeOK
  <2>2. E.pc = pc /\ E.flag = editor[x].flag
    BY <1>1 DEF EditorState
  <2> HIDE DEF E
  <2>3. QED
    BY <2>1, <2>2, OthersStay
<1>5. QED
  BY <1>2, <1>3, <1>4

\* A new request is none of those that write a default.
LEMMA NewRequestKeeps ==
    ASSUME TemplatesInv, NEW x \in Editor, NewRequest(x)
    PROVE  (NoGhosts /\ Alone /\ Coming)'
<1> TypeInv
  BY DEF TemplatesInv
<1>1. ASSUME NEW pc, NEW id, NEW flag, NEW active, BeginRequest(x, pc, id, flag, active),
             ~(pc \in {"insert", "write"} /\ flag = "yes")
      PROVE  (NoGhosts /\ Alone /\ Coming)'
  <2>1. \A y \in Editor : Setting(y)' <=> Setting(y)
    BY <1>1, OthersStay DEF BeginRequest, Setting
  <2>2. UNCHANGED <<state, isDefault, raced, promised>>
    BY <1>1 DEF BeginRequest, table
  <2>3. QED
    BY <2>1, <2>2, QuietKeeps
<1>2. CASE AskCreate(x)
  BY <1>1, <1>2 DEF AskCreate
<1>3. CASE AskUpdate(x)
  BY <1>1, <1>3 DEF AskUpdate
<1>4. CASE AskDelete(x)
  BY <1>1, <1>4 DEF AskDelete
<1>5. CASE AskReply(x)
  BY <1>1, <1>5 DEF AskReply
<1>6. CASE Configure(x)
  <2>1. \A y \in Editor : Setting(y)' <=> Setting(y)
    <3>1. Done(x) /\ ~Setting(x)
      BY <1>6, Zenon DEF Configure, Done, Setting
    <3>2. QED
      BY <3>1, MoveSetting
  <2>2. UNCHANGED <<state, isDefault, raced, promised>>
    BY <1>6 DEF Configure, table
  <2>3. QED
    BY <2>1, <2>2, QuietKeeps
<1>7. QED
  BY <1>2, <1>3, <1>4, <1>5, <1>6 DEF NewRequest

\* Two defaults at most once ...
LEMMA ClearKeeps ==
    ASSUME TemplatesInv, NEW x \in Editor, ClearDefault(x)
    PROVE  (NoGhosts /\ Alone /\ Coming)'
<1>1. editor[x].pc = "clear" /\ editor[x].flag = "yes"
  BY DEF TemplatesInv, TypeInv, Paths, ClearDefault, EditorAt
<1>2. (\A y \in Editor : y # x => Setting(y)' = Setting(y)) /\ Setting(x)'
  BY <1>1, MoveSetting DEF TemplatesInv, ClearDefault
<1>3. Defaults' = {} /\ NoGhosts'
  BY DEF ClearDefault, Defaults, NoGhosts
<1>4. raced' = FALSE => \A y \in Editor : y # x => ~Setting(y)
  BY DEF ClearDefault
<1>5. Alone'
  BY <1>2, <1>3, <1>4 DEF Alone
<1>6. Coming'
  BY <1>2 DEF Coming
<1>7. QED
  BY <1>3, <1>5, <1>6

LEMMA InsertKeeps ==
    ASSUME TemplatesInv, NEW x \in Editor, Insert(x)
    PROVE  (NoGhosts /\ Alone /\ Coming)'
<1>1. (\A y \in Editor : y # x => Setting(y)' = Setting(y)) /\ ~Setting(x)'
  BY MoveSetting DEF TemplatesInv, Insert
<1>2. editor[x].pc = "insert" /\ raced' = raced /\ promised' = (promised \/ Setting(x))
  BY DEF Insert, EditorAt
<1>3. PICK i \in Template :
          /\ state[i] = "none"
          /\ state' = [state EXCEPT ![i] = IF editor[x].active = "yes" THEN "active"
                                           ELSE "inactive"]
          /\ isDefault' = [isDefault EXCEPT ![i] = editor[x].flag = "yes"]
  BY DEF Insert
<1>4. state \in [Template -> {"none", "active", "inactive", "gone"}]
      /\ isDefault \in [Template -> BOOLEAN]
  BY DEF TemplatesInv, TypeInv, TemplatesTypeOK
<1>5. i \notin Defaults
  BY <1>3 DEF Defaults, Exists
<1>6. \A j \in Template : j # i => (Exists(j)' <=> Exists(j)) /\ isDefault'[j] = isDefault[j]
  BY <1>3, <1>4 DEF Exists
<1>7. Exists(i)' /\ (isDefault'[i] <=> Setting(x))
  BY <1>2, <1>3, <1>4 DEF Exists, Setting
<1>8. Defaults' = IF Setting(x) THEN Defaults \cup {i} ELSE Defaults
  <2>1. \A j \in Template : j \in Defaults' <=> (j \in Defaults \/ (j = i /\ Setting(x)))
    BY <1>5, <1>6, <1>7 DEF Defaults
  <2>2. Defaults \subseteq Template /\ Defaults' \subseteq Template
    BY DEF Defaults
  <2>3. CASE Setting(x)
    BY <2>1, <2>2, <2>3
  <2>4. CASE ~Setting(x)
    BY <2>1, <2>2, <2>4
  <2>5. QED
    BY <2>3, <2>4
<1>9. NoGhosts'
  BY <1>6, <1>7 DEF TemplatesInv, NoGhosts
<1>10. Alone'
  BY <1>1, <1>2, <1>8 DEF TemplatesInv, Alone
<1>11. Coming'
  BY <1>1, <1>2, <1>8 DEF TemplatesInv, Coming
<1>12. QED
  BY <1>9, <1>10, <1>11

LEMMA WriteKeeps ==
    ASSUME TemplatesInv, NEW x \in Editor, Write(x)
    PROVE  (NoGhosts /\ Alone /\ Coming)'
<1> DEFINE i == editor[x].id
<1>1. (\A y \in Editor : y # x => Setting(y)' = Setting(y)) /\ ~Setting(x)'
  BY MoveSetting DEF TemplatesInv, Write
<1>2. editor[x].pc = "write" /\ raced' = raced /\ i \in Template /\ editor[x].flag \in Flag
  BY DEF Write, EditorAt, TemplatesInv, TypeInv, TemplatesTypeOK, EditorState, Paths
<1>3. state \in [Template -> {"none", "active", "inactive", "gone"}]
      /\ isDefault \in [Template -> BOOLEAN]
  BY DEF TemplatesInv, TypeInv, TemplatesTypeOK
<1>4. CASE ~Exists(i)
  <2>1. /\ UNCHANGED <<state, isDefault>> /\ promised' = (promised /\ ~Setting(x))
    BY <1>4 DEF Write
  <2>2. Defaults' = Defaults /\ \A j : Exists(j)' <=> Exists(j)
    BY <2>1 DEF Defaults, Exists
  <2>3. NoGhosts'
    BY <2>1, <2>2 DEF TemplatesInv, NoGhosts
  <2>4. Alone'
    BY <1>1, <1>2, <2>2 DEF TemplatesInv, Alone
  <2>5. Coming'
    BY <1>1, <2>1, <2>2 DEF TemplatesInv, Coming
  <2>6. QED
    BY <2>3, <2>4, <2>5
<1>5. CASE Exists(i)
  <2>1. /\ editor[x].flag = "yes" => isDefault' = [isDefault EXCEPT ![editor[x].id] = TRUE]
        /\ editor[x].flag = "no" => isDefault' = [isDefault EXCEPT ![editor[x].id] = FALSE]
        /\ editor[x].flag = "keep" =>
              isDefault' = [isDefault EXCEPT ![editor[x].id] = isDefault[editor[x].id]]
    BY <1>5 DEF Write
  <2>p. promised' = (Setting(x) \/ (promised /\ ~(isDefault[i] /\ editor[x].flag = "no")))
    BY <1>5 DEF Write
  <2>2. \A j \in Template : Exists(j)' <=> Exists(j)
    <3>1. /\ editor[x].active = "yes" => state' = [state EXCEPT ![i] = "active"]
          /\ editor[x].active # "yes" =>
                state' = state \/ state' = [state EXCEPT ![i] = "inactive"]
      BY <1>2, <1>3, <1>5 DEF Write
    <3>2. \A j \in Template : j # i => state'[j] = state[j]
      BY <1>3, <3>1
    <3>3. state'[i] \in {"active", "inactive"}
      BY <1>2, <1>3, <1>5, <3>1 DEF Exists
    <3>4. QED
      BY <1>5, <3>2, <3>3 DEF Exists
  <2>3. \A j \in Template : j # i => isDefault'[j] = isDefault[j]
    BY <1>2, <1>3, <2>1 DEF Flag
  <2>4. NoGhosts'
    BY <1>5, <2>2, <2>3 DEF TemplatesInv, NoGhosts
  <2>5. CASE Setting(x)
    <3>1. isDefault'[i] = TRUE
      BY <1>2, <1>3, <2>1, <2>5 DEF Setting
    <3>2. \A j \in Template : j \in Defaults' <=> j \in Defaults \/ j = i
      BY <1>5, <2>2, <2>3, <3>1 DEF Defaults
    <3>3. Defaults = {} => Defaults' = {i}
      BY <1>2, <3>2 DEF Defaults
    <3>4. Defaults' # {}
      BY <1>2, <3>2
    <3>5. Alone'
      BY <1>1, <1>2, <2>5, <3>3 DEF TemplatesInv, Alone
    <3>6. Coming'
      BY <3>4 DEF Coming
    <3>7. QED
      BY <2>4, <3>5, <3>6
  <2>6. CASE ~Setting(x)
    <3>1. editor[x].flag # "yes"
      BY <1>2, <2>6 DEF Setting
    <3>2. /\ editor[x].flag = "no" => ~isDefault'[i]
          /\ editor[x].flag = "keep" => isDefault'[i] = isDefault[i]
      BY <1>2, <1>3, <2>1
    <3>3. \A j \in Template : j \in Defaults' <=>
              j \in Defaults /\ ~(j = i /\ editor[x].flag = "no")
      BY <1>2, <1>5, <2>2, <2>3, <3>1, <3>2 DEF Defaults, Flag
    <3>4. Alone'
      <4>1. Defaults' \subseteq Defaults
        BY <3>3 DEF Defaults
      <4>2. QED
        BY <1>1, <1>2, <2>6, <4>1 DEF TemplatesInv, Alone
    <3>5. promised' => promised /\ Defaults' = Defaults
      <4>1. SUFFICES ASSUME promised' PROVE promised /\ Defaults' = Defaults
        OBVIOUS
      <4>2. promised /\ ~(isDefault[i] /\ editor[x].flag = "no")
        BY <2>p, <2>6, <4>1
      <4>3. \A j \in Template : j \in Defaults' <=> j \in Defaults
        BY <3>3, <4>2 DEF Defaults
      <4>4. QED
        BY <4>2, <4>3 DEF Defaults
    <3>6. Coming'
      BY <1>1, <2>6, <3>5 DEF TemplatesInv, Coming
    <3>7. QED
      BY <2>4, <3>4, <3>6
  <2>7. QED
    BY <2>5, <2>6
<1>6. QED
  BY <1>2, <1>4, <1>5

LEMMA DeleteKeeps ==
    ASSUME TemplatesInv, NEW x \in Editor, Delete(x)
    PROVE  (NoGhosts /\ Alone /\ Coming)'
<1> DEFINE i == editor[x].id
<1>1. \A y \in Editor : Setting(y)' <=> Setting(y)
  BY MoveSetting DEF TemplatesInv, Delete, EditorAt, Setting
<1>2. state \in [Template -> {"none", "active", "inactive", "gone"}]
      /\ isDefault \in [Template -> BOOLEAN]
  BY DEF TemplatesInv, TypeInv, TemplatesTypeOK
<1>3. /\ state' = [state EXCEPT ![editor[x].id] = "gone"]
      /\ isDefault' = [isDefault EXCEPT ![editor[x].id] = FALSE]
      /\ promised' = (promised /\ ~isDefault[editor[x].id]) /\ raced' = raced
  BY DEF Delete
<1>4. \A j \in Template : j # i => (Exists(j)' <=> Exists(j)) /\ isDefault'[j] = isDefault[j]
  BY <1>2, <1>3 DEF Exists
<1>5. \A j \in Template : j = i => ~Exists(j)' /\ ~isDefault'[j]
  BY <1>2, <1>3 DEF Exists
<1>6. \A j \in Template : j \in Defaults' <=> j \in Defaults /\ j # i
  BY <1>4, <1>5 DEF Defaults
<1>7. NoGhosts'
  BY <1>4, <1>5 DEF TemplatesInv, NoGhosts
<1>8. Alone'
  <2>1. Defaults' \subseteq Defaults
    BY <1>6 DEF Defaults
  <2>2. QED
    BY <1>1, <1>3, <2>1 DEF TemplatesInv, Alone
<1>9. Coming'
  <2>1. SUFFICES ASSUME promised' PROVE Defaults' # {} \/ \E y \in Editor : Setting(y)'
    BY DEF Coming
  <2>2. promised /\ ~isDefault[editor[x].id]
    BY <1>3, <2>1
  <2>3. \A j \in Template : j \in Defaults => j \in Defaults'
    BY <1>6, <2>2 DEF Defaults
  <2>4. QED
    BY <1>1, <2>2, <2>3 DEF TemplatesInv, Coming, Defaults
<1>10. QED
  BY <1>7, <1>8, <1>9

\* A request that ends with an error after clearing takes its promise with it.
LEMMA StatementErrorKeeps ==
    ASSUME TemplatesInv, NEW x \in Editor, StatementError(x)
    PROVE  (NoGhosts /\ Alone /\ Coming)'
<1>1. (\A y \in Editor : y # x => Setting(y)' = Setting(y)) /\ ~Setting(x)'
  BY MoveSetting DEF TemplatesInv, StatementError
<1>2. UNCHANGED <<state, isDefault, raced>> /\ promised' = (promised /\ ~Setting(x))
  BY DEF StatementError, table
<1>3. Defaults' = Defaults /\ \A j : Exists(j)' <=> Exists(j)
  BY <1>2 DEF Defaults, Exists
<1>4. NoGhosts'
  BY <1>2, <1>3 DEF TemplatesInv, NoGhosts
<1>5. Alone'
  BY <1>1, <1>2, <1>3 DEF TemplatesInv, Alone
<1>6. Coming'
  BY <1>1, <1>2, <1>3 DEF TemplatesInv, Coming
<1>7. QED
  BY <1>4, <1>5, <1>6

LEMMA CutRequestsKeeps ==
    ASSUME TemplatesInv, CutRequests
    PROVE  (NoGhosts /\ Alone /\ Coming)'
<1>1. \A y \in Editor : ~Setting(y)'
  BY DEF CutRequests, Setting, IdleEditor
<1>2. /\ UNCHANGED <<state, isDefault, raced>>
      /\ promised' = (promised /\ \A y \in Editor : ~Setting(y))
  BY DEF CutRequests, table
<1>3. Defaults' = Defaults /\ \A j : Exists(j)' <=> Exists(j)
  BY <1>2 DEF Defaults, Exists
<1>4. NoGhosts'
  BY <1>2, <1>3 DEF TemplatesInv, NoGhosts
<1>5. Alone'
  BY <1>1, <1>2, <1>3 DEF TemplatesInv, Alone
<1>6. Coming'
  BY <1>1, <1>2, <1>3 DEF TemplatesInv, Coming
<1>7. QED
  BY <1>4, <1>5, <1>6

\* The steps that touch no flag.
LEMMA QuietSteps ==
    ASSUME TemplatesInv, NEW x \in Editor,
           \/ Find(x) \/ Look(x) \/ ReadLiteral(x) \/ ReadTemplateId(x) \/ GetTemplate(x)
           \/ GetTemplateError(x) \/ FindDefault(x) \/ SendReply(x) \/ SendReplyError(x)
           \/ LogReply(x) \/ CountUse(x) \/ CountUseError(x)
    PROVE  (NoGhosts /\ Alone /\ Coming)'
<1> TypeInv
  BY DEF TemplatesInv
<1>m. ASSUME NEW y \in Editor, editor[y].pc \notin {"insert", "write"} PROVE ~Setting(y)
  BY <1>m DEF Setting
<1>1. CASE Find(x)
  <2>1. UNCHANGED <<state, isDefault, raced, promised>> /\ ~Setting(x)
    BY <1>1, <1>m DEF Find, EditorAt, table, watched
  <2>2. CASE Done(x)
    BY <2>1, <2>2, MoveSetting, QuietKeeps
  <2>3. CASE \E pc : Onward(x, pc) /\ ~(pc \in {"insert", "write"} /\ editor[x].flag = "yes")
    BY <2>1, <2>3, MoveSetting, QuietKeeps
  <2>4. QED
    BY <1>1, <2>2, <2>3 DEF Find
<1>2. ASSUME UNCHANGED <<state, isDefault, raced, promised>>, ~Setting(x),
             \/ Done(x)
             \/ \E pc : Onward(x, pc) /\ pc \notin {"insert", "write"}
             \/ \E pc, i : /\ editor' = [editor EXCEPT ![x].pc = pc, ![x].id = i]
                           /\ pc \notin {"insert", "write"}
      PROVE  (NoGhosts /\ Alone /\ Coming)'
  <2>1. (\A y \in Editor : y # x => Setting(y)' = Setting(y)) /\ ~Setting(x)'
    BY <1>2, MoveSetting
  <2>2. QED
    BY <1>2, <2>1, QuietKeeps
<1> USE DEF EditorAt, table, watched
<1>3. CASE Look(x)
  <2>1. UNCHANGED <<state, isDefault, raced, promised>> /\ ~Setting(x)
    BY <1>3, <1>m DEF Look
  <2>2. Done(x) \/ Onward(x, "delete")
    BY <1>3 DEF Look
  <2>3. QED
    BY <1>2, <2>1, <2>2
<1>4. CASE ReadLiteral(x)
  <2>1. UNCHANGED <<state, isDefault, raced, promised>> /\ ~Setting(x)
    BY <1>4, <1>m DEF ReadLiteral
  <2>2. Onward(x, "send") \/ Onward(x, "explicit")
    BY <1>4 DEF ReadLiteral
  <2>3. QED
    BY <1>2, <2>1, <2>2
<1>5. CASE ReadTemplateId(x)
  <2>1. UNCHANGED <<state, isDefault, raced, promised>> /\ ~Setting(x)
    BY <1>5, <1>m DEF ReadTemplateId
  <2>2. \/ editor' = [editor EXCEPT ![x].pc = "get", ![x].id = setting.id]
        \/ Onward(x, "default")
    BY <1>5 DEF ReadTemplateId
  <2>3. QED
    BY <1>2, <2>1, <2>2
<1>6. CASE GetTemplate(x)
  <2>1. UNCHANGED <<state, isDefault, raced, promised>> /\ ~Setting(x)
    BY <1>6, <1>m DEF GetTemplate
  <2>2. editor \in [Editor -> EditorState]
    BY DEF TypeInv, TemplatesTypeOK
  <2>3. \/ editor' = [editor EXCEPT ![x] = [editor[x] EXCEPT !.pc = "send"]]
        \/ editor' = [editor EXCEPT
                         ![x] = [editor[x] EXCEPT !.pc = "default", !.id = NoTemplate]]
    BY <1>6 DEF GetTemplate
  <2>4. /\ [editor[x] EXCEPT !.pc = "send"].pc = "send"
        /\ [editor[x] EXCEPT !.pc = "default", !.id = NoTemplate].pc = "default"
    BY <2>2 DEF EditorState
  <2>5. (\A y \in Editor : y # x => Setting(y)' = Setting(y)) /\ ~Setting(x)'
    BY <2>3, <2>4, OthersStay
  <2>6. QED
    BY <2>1, <2>5, QuietKeeps
<1>7. CASE GetTemplateError(x)
  <2>1. UNCHANGED <<state, isDefault, raced, promised>> /\ ~Setting(x)
    BY <1>7, <1>m DEF GetTemplateError
  <2>2. editor' = [editor EXCEPT ![x].pc = "default", ![x].id = NoTemplate]
    BY <1>7 DEF GetTemplateError
  <2>3. editor' = [editor EXCEPT
                     ![x] = [editor[x] EXCEPT !.pc = "default", !.id = NoTemplate]]
    BY <2>2 DEF TypeInv, TemplatesTypeOK
  <2>4. [editor[x] EXCEPT !.pc = "default", !.id = NoTemplate].pc = "default"
    BY DEF TypeInv, TemplatesTypeOK, EditorState
  <2>5. (\A y \in Editor : y # x => Setting(y)' = Setting(y)) /\ ~Setting(x)'
    BY <2>3, <2>4, OthersStay
  <2>6. QED
    BY <2>1, <2>5, QuietKeeps
<1>8. CASE FindDefault(x)
  <2>1. UNCHANGED <<state, isDefault, raced, promised>> /\ ~Setting(x)
    BY <1>8, <1>m DEF FindDefault
  <2>2. \/ Onward(x, "silent")
        \/ \E i : editor' = [editor EXCEPT ![x].pc = "send", ![x].id = i]
    BY <1>8 DEF FindDefault, Sends
  <2>3. QED
    BY <1>2, <2>1, <2>2
<1>9. CASE SendReply(x)
  <2>1. UNCHANGED <<state, isDefault, raced, promised>> /\ ~Setting(x)
    BY <1>9, <1>m DEF SendReply
  <2>2. Onward(x, "log")
    BY <1>9 DEF SendReply
  <2>3. QED
    BY <1>2, <2>1, <2>2
<1>10. CASE SendReplyError(x)
  <2>1. UNCHANGED <<state, isDefault, raced, promised>> /\ ~Setting(x) /\ Done(x)
    BY <1>10, <1>m DEF SendReplyError
  <2>2. QED
    BY <1>2, <2>1
<1>11. CASE LogReply(x)
  <2>1. UNCHANGED <<state, isDefault, raced, promised>> /\ ~Setting(x)
    BY <1>11, <1>m DEF LogReply
  <2>2. Done(x) \/ Onward(x, "count")
    BY <1>11 DEF LogReply
  <2>3. QED
    BY <1>2, <2>1, <2>2
<1>12. CASE CountUse(x)
  <2>1. UNCHANGED <<state, isDefault, raced, promised>> /\ ~Setting(x) /\ Done(x)
    BY <1>12, <1>m DEF CountUse
  <2>2. QED
    BY <1>2, <2>1
<1>13. CASE CountUseError(x)
  <2>1. UNCHANGED <<state, isDefault, raced, promised>> /\ ~Setting(x) /\ Done(x)
    BY <1>13, <1>m DEF CountUseError
  <2>2. QED
    BY <1>2, <2>1
<1>14. QED
  BY <1>1, <1>3, <1>4, <1>5, <1>6, <1>7, <1>8, <1>9, <1>10, <1>11, <1>12, <1>13

LEMMA StepKeeps ==
    ASSUME TemplatesInv, TemplatesNext
    PROVE  TemplatesInv'
<1>1. TypeInv'
  BY NewRequestTypes, EditorStepTypes, CutRequestsTypes DEF TemplatesInv, TemplatesNext
<1>2. CASE CutRequests
  BY <1>1, <1>2, CutRequestsKeeps DEF TemplatesInv
<1>3. ASSUME NEW x \in Editor, NewRequest(x) PROVE TemplatesInv'
  BY <1>1, <1>3, NewRequestKeeps DEF TemplatesInv
<1>4. ASSUME NEW x \in Editor, EditorStep(x) PROVE TemplatesInv'
  <2>1. (NoGhosts /\ Alone /\ Coming)'
    BY <1>4, ClearKeeps, InsertKeeps, WriteKeeps, DeleteKeeps, StatementErrorKeeps, QuietSteps
       DEF EditorStep
  <2>2. QED
    BY <1>1, <2>1 DEF TemplatesInv
<1>5. QED
  BY <1>2, <1>3, <1>4 DEF TemplatesNext

LEMMA StutterKeeps ==
    ASSUME TemplatesInv, UNCHANGED templateVars
    PROVE  TemplatesInv'
<1> USE DEF templateVars, table, watched, uses
<1>1. TypeInv'
  BY DEF TemplatesInv, TypeInv, TemplatesTypeOK, Paths
<1>2. \A y \in Editor : Setting(y)' <=> Setting(y)
  BY DEF Setting
<1>3. QED
  BY <1>1, <1>2, QuietKeeps DEF TemplatesInv

LEMMA InitKeeps == TemplatesInit => TemplatesInv
<1> SUFFICES ASSUME TemplatesInit PROVE TemplatesInv
  OBVIOUS
<1>1. TypeInv
  BY InitTypes
<1>2. Defaults = {} /\ \A x \in Editor : ~Setting(x)
  BY DEF TemplatesInit, Defaults, Exists, Setting, IdleEditor
<1>3. NoGhosts /\ Alone /\ Coming
  BY <1>2 DEF TemplatesInit, NoGhosts, Alone, Coming
<1>4. QED
  BY <1>1, <1>3 DEF TemplatesInv

\* The inductive invariant, of every execution of TemplateService and the automatic
\* replies.
THEOREM TemplatesInvariant == TemplatesSpec => []TemplatesInv
BY InitKeeps, StepKeeps, StutterKeeps, PTL DEF TemplatesSpec

\* "keeps at most one default" (template.repository.js): there are two only after two
\* requests had both cleared the defaults before either wrote its own.
THEOREM DefaultIsAlone == TemplatesSpec => []OneDefault
<1>1. TemplatesInv => OneDefault
  <2> SUFFICES ASSUME TemplatesInv, ~raced PROVE Cardinality(Defaults) <= 1
    BY DEF OneDefault
  <2>1. \A i, j \in Defaults : i = j
    BY DEF TemplatesInv, Alone
  <2>2. CASE Defaults = {}
    BY <2>2, FS_EmptySet
  <2>3. CASE Defaults # {}
    <3>1. PICK i : Defaults = {i}
      BY <2>1, <2>3
    <3>2. QED
      BY <3>1, FS_Singleton
  <2>4. QED
    BY <2>2, <2>3
<1>2. QED
  BY <1>1, TemplatesInvariant, PTL

\* Setting a default, by create or update, leaves one: no interleaving with other
\* requests that set one loses both.
THEOREM DefaultStays == TemplatesSpec => []DefaultIsKept
<1>1. TemplatesInv => DefaultIsKept
  BY DEF TemplatesInv, Coming, DefaultIsKept
<1>2. QED
  BY <1>1, TemplatesInvariant, PTL

\* The types of the templates' state.
THEOREM TemplateTypes == TemplatesSpec => []TemplatesTypeOK
<1>1. TemplatesInv => TemplatesTypeOK
  BY DEF TemplatesInv, TypeInv
<1>2. QED
  BY <1>1, TemplatesInvariant, PTL

-----------------------------------------------------------------------------
(* The count of the uses.                                                  *)

Counting == {"log", "count"}

Balanced(i) == sent[i] = usage[i] + Cardinality(Uncounted(i)) + missed[i]

LEMMA CardinalityOfEditors ==
    ASSUME NEW S, S \subseteq Editor, NEW x \in Editor
    PROVE  /\ Cardinality(S) \in Nat
           /\ x \notin S => Cardinality(S \cup {x}) = Cardinality(S) + 1
           /\ x \in S => Cardinality(S \ {x}) = Cardinality(S) - 1
<1>1. IsFiniteSet(S)
  BY EditorAssumption, FS_Subset
<1>2. QED
  BY <1>1, FS_CardinalityType, FS_AddElement, FS_RemoveElement

\* A step of x takes nobody else from the uncounted, nor brings anybody there.
LEMMA OnlyOneMoves ==
    ASSUME TypeInv, NEW x \in Editor, NEW E, editor' = [editor EXCEPT ![x] = E], NEW i
    PROVE  Uncounted(i)' = IF E.pc \in Counting /\ E.id = i
                           THEN Uncounted(i) \cup {x} ELSE Uncounted(i) \ {x}
<1>1. editor'[x] = E /\ \A y \in Editor : y # x => editor'[y] = editor[y]
  BY DEF TypeInv, TemplatesTypeOK
<1>2. QED
  BY <1>1 DEF Uncounted, Counting

\* A request that is not about to count a use, neither before nor after.
LEMMA ElsewhereBalances ==
    ASSUME TypeInv, UsageIsCounted, NEW x \in Editor, NEW E, editor' = [editor EXCEPT ![x] = E],
           editor[x].pc \notin Counting, E.pc \notin Counting,
           UNCHANGED <<usage, sent, missed>>
    PROVE  UsageIsCounted'
<1> SUFFICES ASSUME NEW i \in Template PROVE Balanced(i)'
  BY DEF UsageIsCounted, Balanced
<1>1. Uncounted(i)' = Uncounted(i) \ {x} /\ x \notin Uncounted(i)
  BY OnlyOneMoves DEF Uncounted, Counting
<1>2. Uncounted(i)' = Uncounted(i)
  BY <1>1
<1>3. QED
  BY <1>2 DEF UsageIsCounted, Balanced

LEMMA MovesBalance ==
    ASSUME TypeInv, UsageIsCounted, NEW x \in Editor, editor[x].pc \notin Counting,
           UNCHANGED <<usage, sent, missed>>,
           \/ Done(x)
           \/ \E pc : Onward(x, pc) /\ pc \notin Counting
           \/ \E pc, i : /\ editor' = [editor EXCEPT ![x].pc = pc, ![x].id = i]
                         /\ pc \notin Counting
    PROVE  UsageIsCounted'
<1>1. editor \in [Editor -> EditorState] /\ editor[x] \in EditorState
  BY DEF TypeInv, TemplatesTypeOK
<1>2. CASE Done(x)
  BY <1>2, ElsewhereBalances DEF Done, IdleEditor, Counting
<1>3. ASSUME NEW pc, Onward(x, pc), pc \notin Counting PROVE UsageIsCounted'
  <2> DEFINE E == [editor[x] EXCEPT !.pc = pc]
  <2>1. editor' = [editor EXCEPT ![x] = E] /\ E.pc = pc
    BY <1>1, <1>3 DEF Onward, EditorState
  <2> HIDE DEF E
  <2>2. QED
    BY <1>3, <2>1, ElsewhereBalances
<1>4. ASSUME NEW pc, NEW i, editor' = [editor EXCEPT ![x].pc = pc, ![x].id = i],
             pc \notin Counting
      PROVE  UsageIsCounted'
  <2> DEFINE E == [editor[x] EXCEPT !.pc = pc, !.id = i]
  <2>1. editor' = [editor EXCEPT ![x] = E] /\ E.pc = pc
    BY <1>1, <1>4 DEF EditorState
  <2> HIDE DEF E
  <2>2. QED
    BY <1>4, <2>1, ElsewhereBalances
<1>5. QED
  BY <1>2, <1>3, <1>4

LEMMA NewRequestBalances ==
    ASSUME TypeInv, UsageIsCounted, NEW x \in Editor, NewRequest(x)
    PROVE  UsageIsCounted'
<1>1. ASSUME NEW pc, NEW id, NEW flag, NEW active, BeginRequest(x, pc, id, flag, active),
             pc \notin Counting
      PROVE  UsageIsCounted'
  BY <1>1, ElsewhereBalances DEF BeginRequest, Counting, table, uses
<1>2. CASE Configure(x)
  <2>1. /\ Done(x) /\ editor[x].pc \notin Counting
        /\ UNCHANGED <<usage, sent, missed>>
    BY <1>2, Zenon DEF Configure, Done, Counting, table, uses
  <2>2. QED
    BY <2>1, MovesBalance
<1>3. QED
  BY <1>1, <1>2 DEF NewRequest, AskCreate, AskUpdate, AskDelete, AskReply, Counting

\* The steps of the requests that edit, and those of a reply before it is sent.
LEMMA SilentStepsBalance ==
    ASSUME TypeInv, UsageIsCounted, NEW x \in Editor,
           \/ Find(x) \/ ClearDefault(x) \/ Insert(x) \/ Write(x) \/ Look(x) \/ Delete(x)
           \/ ReadLiteral(x) \/ ReadTemplateId(x) \/ GetTemplate(x) \/ GetTemplateError(x)
           \/ FindDefault(x) \/ SendReplyError(x) \/ StatementError(x)
    PROVE  UsageIsCounted'
<1> USE DEF EditorAt, table, watched, uses, Counting
<1>1. CASE Find(x) \/ Look(x)
  <2>1. editor[x].pc \notin Counting /\ UNCHANGED <<usage, sent, missed>>
    BY <1>1 DEF Find, Look
  <2>2. Done(x) \/ \E pc \in {"clear", "write", "delete"} : Onward(x, pc)
    BY <1>1 DEF Find, Look
  <2>3. QED
    BY <2>1, <2>2, MovesBalance
<1>2. CASE ClearDefault(x)
  <2>1. editor[x].pc \notin Counting /\ UNCHANGED <<usage, sent, missed>>
    BY <1>2 DEF ClearDefault
  <2>2. \E pc \in {"insert", "write"} : Onward(x, pc)
    BY <1>2 DEF ClearDefault
  <2>3. QED
    BY <2>1, <2>2, MovesBalance
<1>3. CASE Insert(x) \/ Write(x) \/ Delete(x) \/ StatementError(x) \/ SendReplyError(x)
  <2>1. Done(x) /\ editor[x].pc \notin Counting /\ UNCHANGED <<usage, sent, missed>>
    BY <1>3 DEF Insert, Write, Delete, StatementError, SendReplyError
  <2>2. QED
    BY <2>1, MovesBalance
<1>4. CASE ReadLiteral(x) \/ ReadTemplateId(x) \/ GetTemplateError(x) \/ FindDefault(x)
  <2>1. editor[x].pc \notin Counting /\ UNCHANGED <<usage, sent, missed>>
    BY <1>4 DEF ReadLiteral, ReadTemplateId, GetTemplateError, FindDefault
  <2>2. \/ \E pc \in {"send", "explicit", "default", "silent"} : Onward(x, pc)
        \/ \E pc \in {"get", "default", "send"} :
              \E i : editor' = [editor EXCEPT ![x].pc = pc, ![x].id = i]
    BY <1>4 DEF ReadLiteral, ReadTemplateId, GetTemplateError, FindDefault, Sends
  <2>3. QED
    BY <2>1, <2>2, MovesBalance
<1>5. CASE GetTemplate(x)
  <2>1. editor[x].pc \notin Counting /\ UNCHANGED <<usage, sent, missed>>
    BY <1>5 DEF GetTemplate
  <2>2. \/ editor' = [editor EXCEPT ![x] = [editor[x] EXCEPT !.pc = "send"]]
        \/ editor' = [editor EXCEPT
                         ![x] = [editor[x] EXCEPT !.pc = "default", !.id = NoTemplate]]
    BY <1>5 DEF GetTemplate, TypeInv, TemplatesTypeOK
  <2>3. /\ [editor[x] EXCEPT !.pc = "send"].pc = "send"
        /\ [editor[x] EXCEPT !.pc = "default", !.id = NoTemplate].pc = "default"
    BY DEF TypeInv, TemplatesTypeOK, EditorState
  <2>4. QED
    BY <2>1, <2>2, <2>3, ElsewhereBalances
<1>6. QED
  BY <1>1, <1>2, <1>3, <1>4, <1>5

\* A reply is sent: its use is uncounted, if it is a template's.
LEMMA SendReplyBalances ==
    ASSUME TypeInv, UsageIsCounted, NEW x \in Editor, SendReply(x)
    PROVE  UsageIsCounted'
<1> SUFFICES ASSUME NEW i \in Template PROVE Balanced(i)'
  BY DEF UsageIsCounted, Balanced
<1> DEFINE E == [editor[x] EXCEPT !.pc = "log"]
<1>1. /\ editor' = [editor EXCEPT ![x] = E] /\ E.pc = "log" /\ E.id = editor[x].id
      /\ editor[x].pc = "send"
  BY DEF SendReply, EditorAt, Onward, TypeInv, TemplatesTypeOK, EditorState
<1>2. UNCHANGED <<usage, missed>>
  BY DEF SendReply, table
<1>3. x \notin Uncounted(i) /\ Uncounted(i) \subseteq Editor
  BY <1>1 DEF Uncounted
<1> HIDE DEF E
<1>4. Uncounted(i)' = IF editor[x].id = i THEN Uncounted(i) \cup {x} ELSE Uncounted(i) \ {x}
  BY <1>1, OnlyOneMoves DEF Counting
<1>5. Balanced(i) /\ sent \in [Template -> Nat] /\ usage[i] \in Nat /\ missed[i] \in Nat
  BY DEF UsageIsCounted, Balanced, TypeInv, TemplatesTypeOK
<1>6. i # NoTemplate
  BY TemplateAssumption DEF NoTemplate
<1>7. CASE editor[x].id = i
  <2>1. sent'[i] = sent[i] + 1
    BY <1>5, <1>6, <1>7 DEF SendReply
  <2>2. Cardinality(Uncounted(i)') = Cardinality(Uncounted(i)) + 1
    BY <1>3, <1>4, <1>7, CardinalityOfEditors
  <2>3. Cardinality(Uncounted(i)) \in Nat
    BY <1>3, CardinalityOfEditors
  <2>4. QED
    BY <1>2, <1>5, <2>1, <2>2, <2>3 DEF Balanced
<1>8. CASE editor[x].id # i
  <2>1. sent'[i] = sent[i]
    BY <1>5, <1>8 DEF SendReply
  <2>2. Uncounted(i)' = Uncounted(i)
    BY <1>3, <1>4, <1>8
  <2>3. QED
    BY <1>2, <1>5, <2>1, <2>2 DEF Balanced
<1>9. QED
  BY <1>7, <1>8

\* The audit row: the use is uncounted still.
LEMMA LogReplyBalances ==
    ASSUME TypeInv, UsageIsCounted, NEW x \in Editor, LogReply(x)
    PROVE  UsageIsCounted'
<1> SUFFICES ASSUME NEW i \in Template PROVE Balanced(i)'
  BY DEF UsageIsCounted, Balanced
<1>1. i # NoTemplate
  BY TemplateAssumption DEF NoTemplate
<1>2. UNCHANGED <<usage, sent, missed>> /\ editor[x].pc = "log"
  BY DEF LogReply, EditorAt, table, uses
<1>3. Uncounted(i)' = Uncounted(i)
  <2>1. CASE editor[x].id = NoTemplate
    <3>1. editor' = [editor EXCEPT ![x] = IdleEditor] /\ IdleEditor.pc \notin Counting
      BY <2>1 DEF LogReply, Done, IdleEditor, Counting
    <3>2. Uncounted(i)' = Uncounted(i) \ {x}
      BY <3>1, OnlyOneMoves
    <3>3. x \notin Uncounted(i)
      BY <1>1, <2>1 DEF Uncounted
    <3>4. QED
      BY <3>2, <3>3
  <2>2. CASE editor[x].id # NoTemplate
    <3> DEFINE E == [editor[x] EXCEPT !.pc = "count"]
    <3>1. editor' = [editor EXCEPT ![x] = E] /\ E.pc = "count" /\ E.id = editor[x].id
      BY <2>2 DEF LogReply, Onward, TypeInv, TemplatesTypeOK, EditorState
    <3> HIDE DEF E
    <3>2. Uncounted(i)' = IF editor[x].id = i
                          THEN Uncounted(i) \cup {x} ELSE Uncounted(i) \ {x}
      BY <3>1, OnlyOneMoves DEF Counting
    <3>3. x \in Uncounted(i) <=> editor[x].id = i
      BY <1>2 DEF Uncounted
    <3>4. QED
      BY <3>2, <3>3
  <2>3. QED
    BY <2>1, <2>2
<1>4. QED
  BY <1>2, <1>3 DEF UsageIsCounted, Balanced

\* The use is counted, or never will be.
LEMMA CountUseBalances ==
    ASSUME TypeInv, UsageIsCounted, NEW x \in Editor, CountUse(x) \/ CountUseError(x)
    PROVE  UsageIsCounted'
<1> SUFFICES ASSUME NEW i \in Template PROVE Balanced(i)'
  BY DEF UsageIsCounted, Balanced
<1>1. /\ editor[x].pc = "count" /\ UNCHANGED sent
      /\ editor' = [editor EXCEPT ![x] = IdleEditor] /\ IdleEditor.pc \notin Counting
  BY DEF CountUse, CountUseError, EditorAt, Done, IdleEditor, Counting
<1>2. /\ Uncounted(i)' = Uncounted(i) \ {x} /\ Uncounted(i) \subseteq Editor
      /\ x \in Uncounted(i) <=> editor[x].id = i
  <2>1. Uncounted(i)' = Uncounted(i) \ {x}
    BY <1>1, OnlyOneMoves
  <2>2. Uncounted(i) \subseteq Editor /\ (x \in Uncounted(i) <=> editor[x].id = i)
    BY <1>1 DEF Uncounted
  <2>3. QED
    BY <2>1, <2>2
<1>3. \/ usage' = [usage EXCEPT ![editor[x].id] = @ + 1] /\ UNCHANGED missed
      \/ missed' = [missed EXCEPT ![editor[x].id] = @ + 1] /\ UNCHANGED usage
  BY DEF CountUse, CountUseError, table
<1>4. /\ Balanced(i) /\ sent[i] \in Nat
      /\ usage \in [Template -> Nat] /\ missed \in [Template -> Nat]
  BY DEF UsageIsCounted, Balanced, TypeInv, TemplatesTypeOK
<1>5. CASE editor[x].id = i
  <2>1. /\ Cardinality(Uncounted(i)') = Cardinality(Uncounted(i)) - 1
        /\ Cardinality(Uncounted(i)) \in Nat
    BY <1>2, <1>5, CardinalityOfEditors
  <2>2. usage'[i] + missed'[i] = usage[i] + missed[i] + 1 /\ usage'[i] \in Nat /\ missed'[i] \in Nat
    BY <1>3, <1>4, <1>5
  <2>3. QED
    BY <1>1, <1>4, <2>1, <2>2 DEF Balanced
<1>6. CASE editor[x].id # i
  <2>1. Uncounted(i)' = Uncounted(i)
    BY <1>2, <1>6
  <2>2. usage'[i] = usage[i] /\ missed'[i] = missed[i]
    BY <1>3, <1>4, <1>6
  <2>3. QED
    BY <1>1, <1>4, <2>1, <2>2 DEF Balanced
<1>7. QED
  BY <1>5, <1>6

\* The process ends: what was uncounted stays so.
LEMMA CutRequestsBalances ==
    ASSUME TypeInv, UsageIsCounted, CutRequests
    PROVE  UsageIsCounted'
<1> SUFFICES ASSUME NEW i \in Template PROVE Balanced(i)'
  BY DEF UsageIsCounted, Balanced
<1>1. Uncounted(i)' = {} /\ Uncounted(i) \subseteq Editor
  BY DEF CutRequests, Uncounted, IdleEditor
<1>2. Cardinality(Uncounted(i)') = 0 /\ Cardinality(Uncounted(i)) \in Nat
  BY <1>1, FS_EmptySet, FS_Subset, FS_CardinalityType, EditorAssumption
<1>3. /\ UNCHANGED <<usage, sent>>
      /\ missed'[i] = missed[i] + Cardinality(Uncounted(i))
  BY DEF CutRequests, table
<1>4. Balanced(i) /\ usage[i] \in Nat /\ missed[i] \in Nat
  BY DEF UsageIsCounted, Balanced, TypeInv, TemplatesTypeOK
<1>5. QED
  BY <1>2, <1>3, <1>4 DEF Balanced

LEMMA UsageStep ==
    ASSUME TypeInv, UsageIsCounted, TemplatesNext
    PROVE  UsageIsCounted'
BY NewRequestBalances, SilentStepsBalance, SendReplyBalances, LogReplyBalances,
   CountUseBalances, CutRequestsBalances DEF TemplatesNext, EditorStep

\* Whatever is answered, edited or killed at the same time, a template's count lacks only
\* the uses that could not be counted.
THEOREM UsesAreCounted == TemplatesSpec => []UsageIsCounted
<1>1. TemplatesInit => UsageIsCounted
  <2> SUFFICES ASSUME TemplatesInit, NEW i \in Template PROVE Balanced(i)
    BY DEF UsageIsCounted, Balanced
  <2>1. Uncounted(i) = {}
    BY DEF TemplatesInit, Uncounted, IdleEditor
  <2>2. QED
    BY <2>1, FS_EmptySet DEF TemplatesInit, Balanced
<1>2. TemplatesInv /\ UsageIsCounted /\ TemplatesNext => UsageIsCounted'
  BY UsageStep DEF TemplatesInv
<1>3. UsageIsCounted /\ UNCHANGED templateVars => UsageIsCounted'
  BY DEF UsageIsCounted, Uncounted, templateVars, table, uses
<1>4. QED
  BY <1>1, <1>2, <1>3, TemplatesInvariant, PTL DEF TemplatesSpec

-----------------------------------------------------------------------------
(***************************************************************************)
(* The reply that stays out.  A request has to remember what it found       *)
(* missing at each of its three reads; what it remembers is true of the     *)
(* settings and the templates as they are until one of them changes.        *)
(***************************************************************************)

SilentPath == {"explicit", "get", "default", "silent"}

\* What the request x knows of the texts on its way to staying silent.
NoText(x) ==
    /\ editor[x].pc \in SilentPath => ~setting.literal
    /\ editor[x].pc = "get" =>
          setting.id # NoTemplate /\ setting.number /\ editor[x].id = setting.id
    /\ (editor[x].pc \in {"default", "silent"} /\ setting.id # NoTemplate /\ setting.number)
          => state[setting.id] # "active"
    /\ editor[x].pc = "silent" => \A i \in Defaults : state[i] # "active"

NoTexts == \A x \in Editor \ disturbed : NoText(x)

\* It knows nothing in places that are not on that way.
LEMMA ElsewhereNoText ==
    ASSUME NEW x \in Editor, editor'[x].pc \notin SilentPath
    PROVE  NoText(x)'
BY DEF NoText, SilentPath

\* The step of one request leaves the others their knowledge.
LEMMA OthersNoText ==
    ASSUME NoTexts, NEW x \in Editor, NEW E, TypeInv,
           editor' = [editor EXCEPT ![x] = E], UNCHANGED <<state, isDefault, setting>>,
           disturbed \ {x} \subseteq disturbed',
           x \notin disturbed' => NoText(x)'
    PROVE  NoTexts'
<1> SUFFICES ASSUME NEW y \in Editor, y \notin disturbed', y # x PROVE NoText(y)'
  BY DEF NoTexts
<1>1. editor'[y] = editor[y]
  BY DEF TypeInv, TemplatesTypeOK
<1>2. NoText(y)
  BY DEF NoTexts
<1>3. QED
  BY <1>1, <1>2 DEF NoText, Defaults, Exists

\* The ways a request moves, as an update of its place.
LEMMA OnwardMove ==
    ASSUME TypeInv, NEW x \in Editor, NEW pc, Onward(x, pc)
    PROVE  /\ editor' = [editor EXCEPT ![x] = editor'[x]]
           /\ editor'[x].pc = pc /\ editor'[x].id = editor[x].id
<1>1. editor \in [Editor -> EditorState] /\ editor[x] \in EditorState
  BY DEF TypeInv, TemplatesTypeOK
<1>2. QED
  BY <1>1 DEF Onward, EditorState

LEMMA TextMove ==
    ASSUME TypeInv, NEW x \in Editor, NEW pc, NEW i,
           editor' = [editor EXCEPT ![x].pc = pc, ![x].id = i]
    PROVE  /\ editor' = [editor EXCEPT ![x] = editor'[x]]
           /\ editor'[x].pc = pc /\ editor'[x].id = i
<1>1. editor \in [Editor -> EditorState] /\ editor[x] \in EditorState
  BY DEF TypeInv, TemplatesTypeOK
<1>2. QED
  BY <1>1 DEF EditorState

\* A step to a place that is not on the way, in unchanged tables.
LEMMA AwayNoText ==
    ASSUME TypeInv, NoTexts, NEW x \in Editor,
           UNCHANGED <<state, isDefault, setting>>, disturbed \ {x} \subseteq disturbed',
           \/ Done(x)
           \/ \E pc : Onward(x, pc) /\ pc \notin SilentPath
           \/ \E pc, i : /\ editor' = [editor EXCEPT ![x].pc = pc, ![x].id = i]
                         /\ pc \notin SilentPath
           \/ \E E : editor' = [editor EXCEPT ![x] = E] /\ E.pc \notin SilentPath
    PROVE  NoTexts'
<1> DEFINE Away == /\ editor' = [editor EXCEPT ![x] = editor'[x]]
                   /\ editor'[x].pc \notin SilentPath
<1>1. CASE Done(x)
  <2>1. Away
    BY <1>1 DEF Done, IdleEditor, SilentPath, TypeInv, TemplatesTypeOK
  <2>2. QED
    BY <2>1, OthersNoText, ElsewhereNoText
<1>2. ASSUME NEW pc, Onward(x, pc), pc \notin SilentPath PROVE NoTexts'
  <2>1. Away
    BY <1>2, OnwardMove
  <2>2. QED
    BY <2>1, OthersNoText, ElsewhereNoText
<1>3. ASSUME NEW pc, NEW i, editor' = [editor EXCEPT ![x].pc = pc, ![x].id = i],
             pc \notin SilentPath
      PROVE  NoTexts'
  <2>1. Away
    BY <1>3, TextMove
  <2>2. QED
    BY <2>1, OthersNoText, ElsewhereNoText
<1>4. ASSUME NEW E, editor' = [editor EXCEPT ![x] = E], E.pc \notin SilentPath
      PROVE  NoTexts'
  <2>1. Away
    BY <1>4 DEF TypeInv, TemplatesTypeOK
  <2>2. QED
    BY <2>1, OthersNoText, ElsewhereNoText
<1>5. QED
  BY <1>1, <1>2, <1>3, <1>4

\* The steps that change a table take everybody's knowledge; a kill ends all requests.
LEMMA DisturbedNoText ==
    ASSUME disturbed' = Editor
    PROVE  NoTexts'
BY DEF NoTexts

\* The steps of a request on its way to staying silent.
LEMMA ReadsNoText ==
    ASSUME TypeInv, NoTexts, NEW x \in Editor,
           ReadLiteral(x) \/ ReadTemplateId(x) \/ GetTemplate(x) \/ FindDefault(x)
    PROVE  NoTexts'
<1> USE DEF EditorAt
<1>u. UNCHANGED <<state, isDefault, setting, disturbed>>
  BY DEF ReadLiteral, ReadTemplateId, GetTemplate, FindDefault, table, watched
<1>d. x \notin disturbed' => NoText(x)
  BY <1>u DEF NoTexts
<1>1. CASE ReadLiteral(x)
  <2>1. CASE setting.literal
    BY <1>1, <1>u, <2>1, AwayNoText DEF ReadLiteral, SilentPath
  <2>2. CASE ~setting.literal
    <3>1. Onward(x, "explicit")
      BY <1>1, <2>2 DEF ReadLiteral
    <3>2. editor' = [editor EXCEPT ![x] = editor'[x]] /\ editor'[x].pc = "explicit"
      BY <3>1, OnwardMove
    <3>3. NoText(x)'
      BY <2>2, <1>u, <3>2 DEF NoText
    <3>4. QED
      BY <3>2, <3>3, <1>u, OthersNoText
  <2>3. QED
    BY <2>1, <2>2
<1>2. CASE ReadTemplateId(x)
  <2>1. /\ editor' = [editor EXCEPT ![x] = editor'[x]]
        /\ IF setting.id # NoTemplate /\ setting.number
           THEN editor'[x].pc = "get" /\ editor'[x].id = setting.id
           ELSE editor'[x].pc = "default"
    <3>1. CASE setting.id # NoTemplate /\ setting.number
      <4>1. editor' = [editor EXCEPT ![x].pc = "get", ![x].id = setting.id]
        BY <1>2, <3>1 DEF ReadTemplateId
      <4>2. QED
        BY <3>1, <4>1, TextMove
    <3>2. CASE ~(setting.id # NoTemplate /\ setting.number)
      <4>1. Onward(x, "default")
        BY <1>2, <3>2 DEF ReadTemplateId
      <4>2. QED
        BY <3>2, <4>1, OnwardMove
    <3>3. QED
      BY <3>1, <3>2
  <2>2. x \notin disturbed' => NoText(x)'
    BY <1>2, <1>u, <1>d, <2>1 DEF ReadTemplateId, NoText, SilentPath
  <2>3. QED
    BY <1>u, <2>1, <2>2, OthersNoText
<1>3. CASE GetTemplate(x)
  <2>1. editor[x] \in EditorState
    BY DEF TypeInv, TemplatesTypeOK
  <2>2. CASE state[editor[x].id] = "active"
    <3>1. editor' = [editor EXCEPT ![x] = [editor[x] EXCEPT !.pc = "send"]]
      BY <1>3, <2>2 DEF GetTemplate
    <3>2. [editor[x] EXCEPT !.pc = "send"].pc \notin SilentPath
      BY <2>1 DEF EditorState, SilentPath
    <3>3. QED
      BY <3>1, <3>2, <1>u, AwayNoText
  <2>3. CASE state[editor[x].id] # "active"
    <3>1. editor' = [editor EXCEPT
                       ![x] = [editor[x] EXCEPT !.pc = "default", !.id = NoTemplate]]
      BY <1>3, <2>3 DEF GetTemplate
    <3>2. editor'[x].pc = "default"
      BY <3>1, <2>1 DEF TypeInv, TemplatesTypeOK, EditorState
    <3>3. x \notin disturbed' => NoText(x)'
      BY <1>3, <1>u, <1>d, <2>3, <3>2 DEF GetTemplate, NoText, SilentPath
    <3>4. QED
      BY <1>u, <3>1, <3>3, OthersNoText
  <2>4. QED
    BY <2>2, <2>3
<1>4. CASE FindDefault(x)
  <2> DEFINE usable == {i \in Defaults : state[i] = "active"}
  <2>1. CASE usable = {}
    <3>1. Onward(x, "silent")
      BY <1>4, <2>1 DEF FindDefault
    <3>2. Defaults' = Defaults
      BY <1>u DEF Defaults, Exists
    <3>3. editor' = [editor EXCEPT ![x] = editor'[x]] /\ editor'[x].pc = "silent"
      BY <3>1, OnwardMove
    <3>4. x \notin disturbed' => NoText(x)'
      BY <1>4, <1>u, <1>d, <2>1, <3>2, <3>3 DEF FindDefault, NoText, SilentPath
    <3>5. QED
      BY <1>u, <3>3, <3>4, OthersNoText
  <2>2. CASE usable # {}
    <3>1. PICK i : Sends(x, i)
      BY <1>4, <2>2 DEF FindDefault
    <3>2. editor' = [editor EXCEPT ![x].pc = "send", ![x].id = i] /\ "send" \notin SilentPath
      BY <3>1 DEF Sends, SilentPath
    <3>3. QED
      BY <1>u, <3>2, AwayNoText
  <2>3. QED
    BY <2>1, <2>2
<1>5. QED
  BY <1>1, <1>2, <1>3, <1>4

LEMMA NewRequestNoText ==
    ASSUME TypeInv, NoTexts, NEW x \in Editor, NewRequest(x)
    PROVE  NoTexts'
<1>1. ASSUME NEW pc, NEW id, NEW flag, NEW active, BeginRequest(x, pc, id, flag, active),
             pc \notin SilentPath
      PROVE  NoTexts'
  <2> DEFINE E == [pc |-> pc, id |-> id, flag |-> flag, active |-> active]
  <2>1. /\ editor' = [editor EXCEPT ![x] = E] /\ E.pc = pc
        /\ UNCHANGED <<state, isDefault, setting>> /\ disturbed \ {x} \subseteq disturbed'
    BY <1>1 DEF BeginRequest, table
  <2> HIDE DEF E
  <2>2. QED
    BY <1>1, <2>1, AwayNoText
<1>2. CASE Configure(x)
  BY <1>2, DisturbedNoText DEF Configure, Disturbs
<1>3. QED
  BY <1>1, <1>2 DEF NewRequest, AskCreate, AskUpdate, AskDelete, AskReply, SilentPath

LEMMA EditorStepNoText ==
    ASSUME TypeInv, NoTexts, NEW x \in Editor, EditorStep(x)
    PROVE  NoTexts'
<1> USE DEF table, watched
<1>1. CASE ReadLiteral(x) \/ ReadTemplateId(x) \/ GetTemplate(x) \/ FindDefault(x)
  BY <1>1, ReadsNoText
<1>2. CASE ClearDefault(x) \/ Insert(x) \/ Write(x) \/ Delete(x)
  BY <1>2, DisturbedNoText DEF ClearDefault, Insert, Write, Delete, Disturbs
<1>3. CASE Find(x) \/ Look(x)
  BY <1>3, AwayNoText DEF Find, Look, SilentPath
<1>4. CASE SendReply(x) \/ SendReplyError(x) \/ LogReply(x)
  BY <1>4, AwayNoText DEF SendReply, SendReplyError, LogReply, SilentPath
<1>5. CASE CountUse(x) \/ CountUseError(x) \/ StatementError(x)
  BY <1>5, AwayNoText DEF CountUse, CountUseError, StatementError
<1>6. CASE GetTemplateError(x)
  <2>1. /\ editor' = [editor EXCEPT ![x] = editor'[x]] /\ x \in disturbed'
        /\ UNCHANGED <<state, isDefault, setting>> /\ disturbed \subseteq disturbed'
    BY <1>6, TextMove DEF GetTemplateError
  <2>2. QED
    BY <2>1, OthersNoText
<1>7. QED
  BY <1>1, <1>2, <1>3, <1>4, <1>5, <1>6 DEF EditorStep

\* A customer is left without a reply only if none of the three places had a text, unless
\* one of them changed while they were read one after the other (autoReply.service.js).
THEOREM SilentWithoutText == TemplatesSpec => []SilentOnlyWithoutText
<1>1. TemplatesInit => NoTexts
  BY DEF TemplatesInit, NoTexts, NoText, IdleEditor, SilentPath
<1>2. TemplatesInv /\ NoTexts /\ TemplatesNext => NoTexts'
  <2>1. CutRequests => NoTexts'
    BY DEF CutRequests, NoTexts, NoText, IdleEditor, SilentPath
  <2>2. QED
    BY <2>1, NewRequestNoText, EditorStepNoText DEF TemplatesNext, TemplatesInv
<1>3. NoTexts /\ UNCHANGED templateVars => NoTexts'
  BY DEF NoTexts, NoText, Defaults, Exists, templateVars, table, watched
<1>4. NoTexts => SilentOnlyWithoutText
  BY DEF NoTexts, NoText, SilentPath, SilentOnlyWithoutText, EditorAt
<1>5. QED
  BY <1>1, <1>2, <1>3, <1>4, TemplatesInvariant, PTL DEF TemplatesSpec
=============================================================================

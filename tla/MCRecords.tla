------------------------------ MODULE MCRecords ------------------------------
(* Small instances of what the server holds about nodes and what it has done *)
(* with it: the sessions of a node that is removed and enrolled again, the   *)
(* history and its database, the daily inspection, the replies of the alert  *)
(* channels and the audit log.  A behaviour follows one of them, its focus;  *)
(* the others rest in their initial state.                                   *)
EXTENDS NodeSessions, HistoryQueries, HistorySchema, DailyInspection, ChannelReplies, AuditTrail

VARIABLE focus

\* Focus on a component, or on one part of it.
Focus == {"sessions", "queries", "schema", "inspection", "replies",
          "events", "logins", "blocked"}

\* Components out of focus start in the same one of their initial states.
RecordsInit ==
  /\ focus \in Focus
  /\ Init /\ HistoryInit /\ InspectionInit /\ AuditInit
  /\ disk = CHOOSE e \in Enrolment : TRUE
  /\ SchemaInit
  /\ focus # "schema" => file.legacy = NoTable /\ file.active = NoTable
  /\ RepliesInit
  /\ focus # "replies" =>
       channel = [kind |-> "smtp", transport |-> "plain", login |-> FALSE, letter |-> <<<<>>, <<>>>>, closes |-> FALSE]

\* Members of S are interchangeable while they are free: the first goes first.
InOrder(S, before, after) ==
  (CHOOSE x \in S : TRUE) \notin before \cup after => after \subseteq before

\* Sessions are interchangeable while they are free, and so are the names of enrolments nothing remembers.  A
\* removal is lost beside one session.
Started == {s \in Session : pc[s] # "none"}
FirstNames ==
  /\ InOrder(Session, Started, Started')
  /\ lost' = 0 \/ Cardinality(Started') <= 1
  /\ disk' \notin {disk, Absent} => disk' = CHOOSE e \in Enrolment : e \notin Remembered

\* An answer is taken at once, and two samples are kept at a time, more with one question.
FewSamples ==
  /\ \A c \in Caller : asking[c].stage = "answered" => asking'[c] = NotAsking
  /\ (Cardinality(DOMAIN rows') <= 2 \/ asked' <= 1) /\ (open' \/ asked' = asked)

\* One node goes up and down; the other is only late, and stores a sample with each change.
QuietOthers ==
  LET quiet == Inspected \ {CHOOSE n \in Inspected : TRUE} IN
  /\ report.stage # "done"
  /\ \A n \in quiet :
       /\ state'[n] # Unknown => state'[n].online /\ state'[n].load = Warn /\ state'[n].rtt = Nothing
       /\ state'[n] # state[n] => points'[n] # points[n]

\* Queries beside events, the second beside fewer; logins alone; blocked requests, with nobody asking.
Calls == {c \in Reader : calls[c].stage # "none"}
OnlyQueries == tracked' = <<>> /\ made' + Cardinality(Calls') <= 4 /\ \A c \in Calls' : calls'[c].what = "query"
OnlyLogins == (\A i \in DOMAIN mail' : mail'[i].ack # {}) /\ (\A c \in Calls' : calls'[c].what = "login")
OnlyBlocked == calls' = calls /\ \A i \in DOMAIN mail' : mail'[i].event.kind = "limited"

RecordsNext ==
  /\ UNCHANGED focus
  /\ \/ focus = "sessions" /\ Next /\ FirstNames
          /\ UNCHANGED <<historyVars, schemaVars, inspectionVars, replyVars, auditVars>>
     \/ focus = "queries" /\ HistoryNext /\ FewSamples
          /\ UNCHANGED <<vars, schemaVars, inspectionVars, replyVars, auditVars>>
     \/ focus = "schema" /\ SchemaNext
          /\ UNCHANGED <<vars, historyVars, inspectionVars, replyVars, auditVars>>
     \/ focus = "inspection" /\ InspectionNext /\ QuietOthers
          /\ UNCHANGED <<vars, historyVars, schemaVars, replyVars, auditVars>>
     \/ focus = "replies" /\ RepliesNext
          /\ UNCHANGED <<vars, historyVars, schemaVars, inspectionVars, auditVars>>
     \/ focus = "events" /\ AuditNext /\ OnlyQueries /\ InOrder(Reader, Calls, Calls')
          /\ UNCHANGED <<vars, historyVars, schemaVars, inspectionVars, replyVars>>
     \/ focus = "logins" /\ AuditNext /\ OnlyLogins /\ InOrder(Reader, Calls, Calls')
          /\ UNCHANGED <<vars, historyVars, schemaVars, inspectionVars, replyVars>>
     \/ focus = "blocked" /\ AuditNext /\ OnlyBlocked
          /\ UNCHANGED <<vars, historyVars, schemaVars, inspectionVars, replyVars>>

RecordsSpec ==
  RecordsInit
  /\ [][RecordsNext]_<<focus, vars, historyVars, schemaVars, inspectionVars, replyVars, auditVars>>

\* Every variable of the component in focus has a value of its type.
RecordsTypeOK ==
  /\ focus = "sessions" => TypeOK
  /\ focus = "queries" => HistoryTypeOK
  /\ focus = "schema" => SchemaTypeOK
  /\ focus = "inspection" => InspectionTypeOK
  /\ focus = "replies" => RepliesTypeOK
  /\ focus \in {"events", "logins", "blocked"} => AuditTypeOK
=============================================================================

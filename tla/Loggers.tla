---- MODULE Loggers ----
(* logger.cpp, appender.cpp, logger_config.cpp: loggers are found by name and shared;
   configure_logging() forgets them all and makes new ones step by step, while other threads log.
   The macros ask for a logger twice: whether a level is enabled, and to log. And gelf_appender: a
   long message is cut into datagrams. *)
EXTENDS Integers, Sequences, SequencesExt, FiniteSets

CONSTANTS
    LogThreads,       \* the threads that log
    LoggerNames, AppenderNames,
    Levels,           \* 0..off
    WarnLevel,        \* log_level::warn, that of a new logger
    LogConfigs,       \* the configurations that are tried
    MaxConfigs,       \* bound: how many configurations are made
    MaxLogged,        \* bound: how many messages a thread logs
    Payload, Header,  \* gelf: max_payload_size and header_length
    CountWord         \* 2^8: the number of a packet and their total are a byte

ASSUME LoggersAssumption ==
  /\ Levels \subseteq Nat /\ WarnLevel \in Levels
  /\ Payload \in Nat /\ Header \in 0..Payload - 1 /\ CountWord \in Nat \ {0}

\* A configuration names appenders, of which the last may be impossible to make, and
\* loggers: [name, parent, level, appenders], parent and level as {} or {value}.

VARIABLES
    loggers,      \* the loggers that were ever made: number -> what it is
    loggerMap,    \* get_logger_map(): name -> number
    appenderMap,  \* get_appender_map(): name -> 0, none, or the appender
    appended,     \* how many appenders were made
    configuring,  \* configure_logging(): [cfg, at, made], what is done of it
    configs,      \* how many configurations were begun
    logging,      \* per thread: the logger it asked for, and whether no configuration
                  \* was made since
    logged,       \* per thread: how many messages it logged
    records       \* what the appenders were given

lgVars == <<loggers, loggerMap, appenderMap, appended, configuring, configs, logging, logged, records>>

NoConfig == [cfg |-> [appenders |-> <<>>, broken |-> FALSE, loggers |-> <<>>], at |-> 0, result |-> "none"]
NotLogging == [step |-> "idle", name |-> "", level |-> 0, settled |-> TRUE]

\* The domain of every variable: each name of the maps of logger.cpp and appender.cpp
\* leads to a logger or an appender that exists (0: the null one get() puts there).
LgTypeOK ==
  /\ \A n \in DOMAIN loggers : loggers[n].level \in Levels /\ \A a \in ToSet(loggers[n].appenders) : a \in 1..appended
  /\ loggerMap \in [DOMAIN loggerMap -> DOMAIN loggers] /\ DOMAIN loggerMap \subseteq LoggerNames
  /\ appenderMap \in [DOMAIN appenderMap -> 0..appended] /\ DOMAIN appenderMap \subseteq AppenderNames

LgInit ==
  /\ loggers = <<>> /\ loggerMap = <<>> /\ appenderMap = <<>> /\ appended = 0
  /\ configuring = NoConfig /\ configs = 0
  /\ logging = [t \in LogThreads |-> NotLogging] /\ logged = [t \in LogThreads |-> 0] /\ records = {}
----
\* The entry of a map, made when it is missing.
WithEntry(map, name, new) == IF name \in DOMAIN map THEN map ELSE (name :> new) @@ map

\* logger::logger(): enabled from warn on, without appenders; no parent is ever given a message.
NewLogger == [name |-> "", parent |-> {}, level |-> WarnLevel, appenders |-> <<>>]

\* logger::get(): makes the logger that is missing.
Gotten(L, map, name) ==
  IF name \in DOMAIN map THEN [L |-> L, map |-> map]
  ELSE [L |-> Append(L, NewLogger), map |-> WithEntry(map, name, Len(L) + 1)]

\* appender::get(): makes an entry without an appender.
Appender(name) == IF name \in DOMAIN appenderMap THEN appenderMap[name] ELSE 0
----
(* configure_logging() *)

Unsettled == logging' = [t \in LogThreads |-> [logging[t] EXCEPT !.settled = FALSE]]

Configure(cfg) ==
  /\ configuring.result # "running" /\ configs < MaxConfigs /\ configs' = configs + 1
  /\ loggerMap' = <<>> /\ appenderMap' = <<>>
  /\ configuring' = [cfg |-> cfg, at |-> 0, result |-> "running"] /\ Unsettled
  /\ UNCHANGED <<loggers, appended, logged, records>>

\* appender::create(); that of the last one may throw, which ends it all.
CreateAppender ==
  LET cfg == configuring.cfg
      i == configuring.at + 1
  IN  /\ configuring.result = "running" /\ i <= Len(cfg.appenders)
      /\ IF cfg.broken /\ i = Len(cfg.appenders)
         THEN configuring' = [configuring EXCEPT !.result = "failed"] /\ UNCHANGED <<appenderMap, appended>>
         ELSE /\ appended' = appended + 1
              /\ appenderMap' = (cfg.appenders[i] :> appended + 1) @@ appenderMap
              /\ configuring' = [configuring EXCEPT !.at = i]
      /\ UNCHANGED <<loggers, loggerMap, configs, logging, logged, records>>

\* One logger: found or made, and its parent too; an appender that is not there is
\* left out, and its name gets an empty entry.
ConfigureLogger ==
  LET cfg == configuring.cfg
      i == configuring.at + 1 - Len(cfg.appenders)
      c == cfg.loggers[i]
      own == Gotten(loggers, loggerMap, c.name)
      all == FoldLeft(LAMBDA g, p : Gotten(g.L, g.map, p), own, SetToSeq(c.parent))
      found == SelectSeq([k \in DOMAIN c.appenders |-> Appender(c.appenders[k])], LAMBDA a : a # 0)
  IN  /\ configuring.result = "running" /\ i \in DOMAIN cfg.loggers
      /\ loggers' = [all.L EXCEPT ![all.map[c.name]] =
                        [name |-> c.name,
                         parent |-> IF c.parent = {} THEN @.parent ELSE {all.map[p] : p \in c.parent},
                         level |-> IF c.level = {} THEN @.level ELSE CHOOSE l \in c.level : TRUE,
                         appenders |-> @.appenders \o found]]
      /\ loggerMap' = all.map
      /\ appenderMap' = FoldLeft(LAMBDA m, a : WithEntry(m, a, 0), appenderMap, c.appenders)
      /\ configuring' = [configuring EXCEPT !.at = @ + 1, !.result = IF i = Len(cfg.loggers) THEN "done" ELSE @]
      /\ Unsettled /\ UNCHANGED <<appended, configs, logged, records>>
----
(* dlog, ilog, wlog and elog *)

IsEnabled(g, level) == level >= g.level

\* is_enabled() of the logger that is found, at this moment.
Ask(t, name, level) ==
  LET g == Gotten(loggers, loggerMap, name)
  IN  /\ logging[t].step = "idle" /\ logged[t] < MaxLogged
      /\ loggers' = g.L /\ loggerMap' = g.map
      /\ logging' = [logging EXCEPT ![t] =
                        IF ~IsEnabled(g.L[g.map[name]], level) THEN NotLogging
                        ELSE [step |-> "enabled", name |-> name, level |-> level, settled |-> TRUE]]
      /\ UNCHANGED <<appenderMap, appended, configuring, configs, logged, records>>

\* log() of the logger that is found now: each of its appenders gets the message.
LogMessage(t) ==
  LET g == Gotten(loggers, loggerMap, logging[t].name)
      l == g.L[g.map[logging[t].name]]
  IN  /\ logging[t].step = "enabled" /\ logging' = [logging EXCEPT ![t] = NotLogging]
      /\ logged' = [logged EXCEPT ![t] = @ + 1] /\ loggers' = g.L /\ loggerMap' = g.map
      /\ records' = records \union {[appender |-> a, level |-> logging[t].level, limit |-> l.level,
                                     settled |-> logging[t].settled] : a \in ToSet(l.appenders)}
      /\ UNCHANGED <<appenderMap, appended, configuring, configs>>

LgNext ==
  \/ \E cfg \in LogConfigs : Configure(cfg)
  \/ CreateAppender \/ ConfigureLogger
  \/ \E t \in LogThreads : LogMessage(t) \/ \E name \in LoggerNames, level \in Levels : Ask(t, name, level)
----
(* gelf_appender::log() *)

\* The packets of a message that is too long for one.
Chunks(text) ==
  LET body == Payload - Header
      total == (Len(text) + body - 1) \div body
  IN  [i \in 1..total |-> [number |-> (i - 1) % CountWord, total |-> total % CountWord,
                           body |-> SubSeq(text, (i - 1) * body + 1, IF i = total THEN Len(text) ELSE i * body)]]

\* What the receiver makes of the packets, in whatever order they came.
Assembled(packets) ==
  LET ofNumber(n) == CHOOSE p \in packets : p.number = n
  IN  FoldLeft(LAMBDA text, n : text \o ofNumber(n).body, <<>>, [i \in 1..Cardinality(packets) |-> i - 1])
----
(* Properties. *)

\* When a configuration is done, each logger it names has the level and the appenders it was told,
\* each once; a thread that asked for it earlier has the same one.
ConfiguredAsTold ==
  configuring.result = "done" =>
      \A c \in ToSet(configuring.cfg.loggers) :
          LET l == loggers[loggerMap[c.name]]
          IN  /\ c.level # {} => l.level \in c.level
              /\ ToSet(l.appenders) = {appenderMap[a] : a \in ToSet(c.appenders)} \ {0}
              /\ IsInjective(l.appenders)

\* A message that no configuration crossed is given to appenders only of a logger
\* for which its level is enabled, though the logger was looked for twice.
LevelIsRespected == \A r \in records : r.settled => r.level >= r.limit

\* A message never reaches an appender of a former configuration through a name.
FormerRest ==
  \A name \in DOMAIN loggerMap : \A a \in ToSet(loggers[loggerMap[name]].appenders) :
      \E n \in DOMAIN appenderMap : appenderMap[n] = a

\* The packets of a message are no longer than one may be and give it back in any
\* order: as long as their number fits its byte.
ChunksReturn(text) ==
  LET packets == Chunks(text)
  IN  /\ \A p \in ToSet(packets) : Header + Len(p.body) <= Payload
      /\ Len(packets) <= CountWord =>
            Assembled(ToSet(packets)) = text /\ \A p \in ToSet(packets) : p.total = Len(packets) % CountWord
====

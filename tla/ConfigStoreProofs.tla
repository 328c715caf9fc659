-------------------------- MODULE ConfigStoreProofs --------------------------
(***************************************************************************)
(* Theorems about ConfigStore, for any number of event goroutines, any     *)
(* limits and durations and any passwords.                                 *)
(***************************************************************************)
EXTENDS ConfigStore, TLAPS

-----------------------------------------------------------------------------
(* The inductive invariant of the types.                                   *)

\* What the server may hold.
FailsafeValues == Limits \cup {WholeNumber(n) : n \in FailsafeTexts}
DurationValues == Durations \cup {WholeNumber(n) : n \in DurationTexts}

\* What was encrypted is a value of the server, never the empty text of a new file.
Storable(c) ==
    /\ c.failsafe.key # 0 => c.failsafe.text \in FailsafeTexts
    /\ c.duration.key # 0 => c.duration.text \in DurationTexts

\* A goroutine about to store a value has read one of that kind.
ReadKind(h) ==
    step[h] = "assign" =>
        Truncate(read[h]) \in
            IF half[h] = "failsafe" THEN FailsafeTexts ELSE DurationTexts

TypeInv ==
    /\ TypeOK
    /\ Storable(config)
    /\ Storable(file.content)
    /\ \A h \in Handlers : Storable(encoded[h]) /\ ReadKind(h)

-----------------------------------------------------------------------------
(* The inductive invariant of the start and of the password.               *)

\* A configuration whose password is the user's last: as entered, or encrypted under
\* the serial number next to it, unless that one is of an identity removed since; the
\* serial number generated next is not one it is encrypted under.
PasswordKept(c) ==
    /\ c.sn # 0
    /\ c.sn <= serials /\ c.mqtt.key <= serials
    /\ c.mqtt.key = 0 => c.mqtt = Plain(password) /\ ~rekeyed
    /\ c.mqtt.key # 0 =>
         /\ password \in Passwords
         /\ c.mqtt.text = password
         /\ IF rekeyed THEN c.identity => c.mqtt.key # c.sn
                       ELSE c.identity /\ c.mqtt.key = c.sn

StartInv ==
    /\ file.state = "absent" =>
         phase = "down" /\ password = NoPassword /\ ~rekeyed
    /\ file.state = "written" => PasswordKept(file.content)
    /\ phase # "down" => PasswordKept(config)
    /\ phase \notin {"down", "generating"} => config.identity
    /\ phase \in {"securing", "starting", "running"} => ~Unsecured(config)
    /\ phase # "running" => Idle
    /\ \A h \in Handlers :
         step[h] = "write" => PasswordKept(encoded[h]) /\ encoded[h].identity

-----------------------------------------------------------------------------
(* The inductive invariant of the failsafe values.                         *)

StoredFailsafe(c) == ServerAfterRun(c).failsafe = Surviving(server).failsafe
StoredDuration(c) == ServerAfterRun(c).duration = Surviving(server).duration

\* The steps at which the value is in the global config.
Assigned == {"create", "marshal", "write"}

\* A goroutine that runs alone stores what the server holds.
Storing(h) ==
    /\ half[h] = "failsafe" /\ step[h] = "assign" => read[h] = server.failsafe
    /\ half[h] = "failsafe" /\ step[h] \in Assigned => StoredFailsafe(config)
    /\ half[h] = "duration" => StoredFailsafe(config)
    /\ half[h] = "duration" /\ step[h] = "assign" => read[h] = server.duration
    /\ half[h] = "duration" /\ step[h] \in Assigned => StoredDuration(config)
    /\ half[h] = "duration" /\ step[h] = "write" => encoded[h] = config

FailsafeInv ==
    /\ phase \in {"connecting", "starting"} => file = Written(config)
    /\ phase = "running" /\ ~overlapped =>
         /\ \A h, i \in Handlers : step[h] # "idle" /\ step[i] # "idle" => h = i
         /\ \A h \in Handlers : step[h] # "idle" => Storing(h)
         /\ Idle => /\ file = Written(config)
                    /\ StoredFailsafe(config)
                    /\ StoredDuration(config)

-----------------------------------------------------------------------------
(* Types.                                                                  *)

\* The fields of a configuration.
LEMMA ConfigFields ==
    \A c \in Configs :
        /\ c.identity \in BOOLEAN /\ c.remoteSki \in BOOLEAN /\ c.sn \in 0..MaxSN
        /\ c.failsafe.key \in 0..MaxSN
        /\ c.failsafe.text \in FailsafeTexts \cup {NoText}
        /\ c.duration.key \in 0..MaxSN
        /\ c.duration.text \in DurationTexts \cup {NoText}
        /\ c.mqtt.key \in 0..MaxSN
        /\ c.mqtt.text \in Passwords \cup LongPasswords \cup {"ciphertext"}
BY DEF Configs, Cipher

\* A new configuration is one, and holds no encrypted value.
LEMMA NewConfigTypes ==
    \A sn \in 0..MaxSN : NewConfig(sn) \in Configs /\ Storable(NewConfig(sn))
<1> SUFFICES ASSUME NEW sn \in 0..MaxSN
             PROVE  NewConfig(sn) \in Configs /\ Storable(NewConfig(sn))
  OBVIOUS
<1>1. 0 \in 0..MaxSN
  BY ConfigAssumption
<1>2. /\ Plain(NoText) \in Cipher(FailsafeTexts \cup {NoText})
      /\ Plain(NoText) \in Cipher(DurationTexts \cup {NoText})
      /\ Plain(NoPassword) \in Cipher(Passwords \cup LongPasswords \cup {"ciphertext"})
  BY <1>1, ConfigAssumption DEF Plain, Cipher
<1>3. NewConfig(sn) \in Configs
  BY <1>2 DEF NewConfig, Configs
<1>4. Storable(NewConfig(sn))
  BY DEF NewConfig, Storable, Plain
<1> QED
  BY <1>3, <1>4

\* The empty configuration can be stored.
LEMMA NoConfigTypes == NoConfig \in Configs /\ Storable(NoConfig)
BY NewConfigTypes, ConfigAssumption DEF NoConfig

\* The values of the server: cutting off the fraction makes a text of them.
LEMMA ValueTypes ==
    /\ \A v \in FailsafeValues : v \in Quantities /\ Truncate(v) \in FailsafeTexts
    /\ \A v \in DurationValues : v \in Quantities /\ Truncate(v) \in DurationTexts
    /\ WholeNumber(DefaultLimit) \in FailsafeValues
    /\ WholeNumber(DefaultDuration) \in DurationValues
    /\ WholeNumber(0) \in Quantities
<1>1. \A n \in Int : WholeNumber(n) \in Quantities /\ Truncate(WholeNumber(n)) = n
  BY DEF WholeNumber, Quantities, Truncate
<1>2. FailsafeTexts \subseteq Int /\ DurationTexts \subseteq Int
  BY ConfigAssumption
     DEF FailsafeTexts, DurationTexts, Truncate, Quantities, DefaultLimit, TwoHours, OneDay
<1>3. /\ \A l \in Limits : l \in Quantities /\ Truncate(l) \in FailsafeTexts
      /\ \A d \in Durations : d \in Quantities /\ Truncate(d) \in DurationTexts
  BY ConfigAssumption DEF FailsafeTexts, DurationTexts
<1>4. DefaultLimit \in FailsafeTexts /\ DefaultDuration \in DurationTexts
  BY DEF FailsafeTexts, DurationTexts, DefaultDuration, OneDay
<1> QED
  BY <1>1, <1>2, <1>3, <1>4 DEF FailsafeValues, DurationValues

\* The two values of the server after run(), and what survives of those it holds.
LEMMA ServerFields ==
    ASSUME NEW c
    PROVE  /\ ServerAfterRun(c).failsafe = WholeNumber(GetFailsafeLPP(c).failsafe)
           /\ ServerAfterRun(c).duration = WholeNumber(Accepted(GetFailsafeLPP(c).duration))
           /\ Surviving(c).failsafe = WholeNumber(Truncate(c.failsafe))
           /\ Surviving(c).duration = WholeNumber(Accepted(Truncate(c.duration)))
BY DEF ServerAfterRun, Surviving

\* What run() gives the server is a value of its type, for every configuration
\* whose encrypted values came from the server.
LEMMA ServerAfterRunTypes ==
    ASSUME NEW c \in Configs, Storable(c)
    PROVE  /\ ServerAfterRun(c).failsafe \in FailsafeValues
           /\ ServerAfterRun(c).duration \in DurationValues
<1>1. /\ GetFailsafeLPP(c).failsafe \in FailsafeTexts
      /\ GetFailsafeLPP(c).duration \in DurationTexts
  BY DEF GetFailsafeLPP, Decryptable, Storable, FailsafeTexts, DurationTexts,
         DefaultDuration, OneDay
<1>2. Accepted(GetFailsafeLPP(c).duration) \in DurationTexts
  BY <1>1 DEF Accepted, DurationTexts
<1> QED
  BY <1>1, <1>2, ServerFields DEF FailsafeValues, DurationValues

\* A process that ended leaves the types behind.
LEMMA EndedKeepsTypes ==
    ASSUME TypeInv, Ended
    PROVE  /\ config' \in Configs /\ Storable(config')
           /\ phase' \in Phases
           /\ server'.failsafe \in FailsafeValues
           /\ server'.duration \in DurationValues
           /\ step' \in [Handlers -> Steps]
           /\ half' \in [Handlers -> {"failsafe", "duration"}]
           /\ read' \in [Handlers -> Quantities]
           /\ encoded' \in [Handlers -> Configs]
           /\ overlapped' \in BOOLEAN
           /\ \A h \in Handlers : Storable(encoded'[h]) /\ ReadKind(h)'
<1>1. config' = NoConfig /\ encoded' = [h \in Handlers |-> NoConfig]
  BY DEF Ended
<1>2. config' \in Configs /\ Storable(config')
  BY <1>1, NoConfigTypes
<1>3. encoded' \in [Handlers -> Configs] /\ \A h \in Handlers : Storable(encoded'[h])
  BY <1>1, NoConfigTypes
<1>4. /\ step' = [h \in Handlers |-> "idle"]
      /\ half' = [h \in Handlers |-> "failsafe"]
      /\ read' = [h \in Handlers |-> WholeNumber(0)]
  BY DEF Ended
<1>5. /\ step' \in [Handlers -> Steps]
      /\ half' \in [Handlers -> {"failsafe", "duration"}]
      /\ read' \in [Handlers -> Quantities]
      /\ \A h \in Handlers : ReadKind(h)'
  BY <1>4, ValueTypes DEF Steps, ReadKind
<1>6. phase' \in Phases /\ overlapped' \in BOOLEAN
  BY DEF Ended, Phases
<1>7. server' = NoServer
  BY DEF Ended
<1>8. server'.failsafe \in FailsafeValues /\ server'.duration \in DurationValues
  BY <1>7, ValueTypes DEF NoServer
<1> QED
  BY <1>2, <1>3, <1>5, <1>6, <1>8

\* The type invariant holds at first.
LEMMA InitTypes == Init => TypeInv
<1> SUFFICES ASSUME Init PROVE TypeInv
  OBVIOUS
<1>1. config \in Configs /\ Storable(config)
  BY NoConfigTypes DEF Init
<1>2. /\ file \in [state : {"absent", "truncated", "written"}, content : Configs]
      /\ Storable(file.content)
  BY NoConfigTypes DEF Init, Absent
<1>3. encoded \in [Handlers -> Configs] /\ \A h \in Handlers : Storable(encoded[h])
  BY NoConfigTypes DEF Init
<1>4. server.failsafe \in FailsafeValues /\ server.duration \in DurationValues
  BY ValueTypes DEF Init, NoServer
<1>5. /\ step \in [Handlers -> Steps]
      /\ half \in [Handlers -> {"failsafe", "duration"}]
      /\ read \in [Handlers -> Quantities]
      /\ \A h \in Handlers : ReadKind(h)
  BY ValueTypes DEF Init, Steps, ReadKind
<1>6. serials \in 0..MaxSN /\ password \in Passwords \cup LongPasswords
  BY ConfigAssumption DEF Init
<1>7. phase \in Phases /\ overlapped \in BOOLEAN /\ rekeyed \in BOOLEAN
  BY DEF Init, Phases
<1> QED
  BY <1>1, <1>2, <1>3, <1>4, <1>5, <1>6, <1>7
     DEF TypeInv, TypeOK, FailsafeValues, DurationValues

\* A file that is written with a configuration, or truncated.
LEMMA FileTypes ==
    /\ Truncated \in [state : {"absent", "truncated", "written"}, content : Configs]
    /\ Storable(Truncated.content)
    /\ Absent \in [state : {"absent", "truncated", "written"}, content : Configs]
    /\ Storable(Absent.content)
    /\ \A c \in Configs :
         /\ Written(c) \in [state : {"absent", "truncated", "written"}, content : Configs]
         /\ Written(c).content = c
BY NoConfigTypes DEF Truncated, Absent, Written

\* The handlers' part of the invariant, which no step but theirs changes.
HandlerTypes ==
    /\ step \in [Handlers -> Steps]
    /\ half \in [Handlers -> {"failsafe", "duration"}]
    /\ read \in [Handlers -> Quantities]
    /\ encoded \in [Handlers -> Configs]
    /\ \A h \in Handlers : Storable(encoded[h]) /\ ReadKind(h)

\* The part about the configuration, in memory and in the file.
ConfigTypes ==
    /\ file \in [state : {"absent", "truncated", "written"}, content : Configs]
    /\ Storable(file.content)
    /\ config \in Configs
    /\ Storable(config)

\* The rest.
OtherTypes ==
    /\ phase \in Phases
    /\ server.failsafe \in FailsafeValues
    /\ server.duration \in DurationValues
    /\ serials \in 0..MaxSN
    /\ overlapped \in BOOLEAN
    /\ password \in Passwords \cup LongPasswords
    /\ rekeyed \in BOOLEAN

\* The parts of the type invariant, for goals that need one of them.
LEMMA TypeInvParts ==
    /\ TypeInv <=> HandlerTypes /\ ConfigTypes /\ OtherTypes
    /\ TypeInv' <=> HandlerTypes' /\ ConfigTypes' /\ OtherTypes'
BY DEF TypeInv, TypeOK, HandlerTypes, ConfigTypes, OtherTypes, FailsafeValues,
       DurationValues

\* Steps that leave the handlers alone keep their types.
LEMMA HandlersUnchanged == HandlerTypes /\ UNCHANGED handlerVars => HandlerTypes'
BY DEF HandlerTypes, handlerVars, ReadKind

\* A start of the process keeps the types.
LEMMA StartUpKeepsTypes == TypeInv /\ StartUp => TypeInv'
<1> SUFFICES ASSUME HandlerTypes, ConfigTypes, OtherTypes, TypeInv, StartUp
             PROVE  HandlerTypes' /\ ConfigTypes' /\ OtherTypes'
  BY TypeInvParts
<1>1. CASE GenerateConfig
  <2>1. serials + 1 \in 0..MaxSN
    BY <1>1, ConfigAssumption DEF GenerateConfig, OtherTypes
  <2>2. ConfigTypes'
    BY <1>1, <2>1, NewConfigTypes, FileTypes DEF GenerateConfig, ConfigTypes
  <2>3. OtherTypes'
    BY <1>1, <2>1 DEF GenerateConfig, OtherTypes, historyVars, Phases
  <2> QED
    BY <1>1, <2>2, <2>3, HandlersUnchanged DEF GenerateConfig
<1>2. CASE ConfigGenerated
  <2>1. Ended /\ file' = Written(config) /\ UNCHANGED <<serials, password, rekeyed>>
    BY <1>2 DEF ConfigGenerated
  <2> QED
    BY <2>1, EndedKeepsTypes, FileTypes DEF ConfigTypes, HandlerTypes, OtherTypes
<1>3. CASE ReadConfig
  <2>1. ConfigTypes'
    BY <1>3 DEF ReadConfig, ConfigTypes
  <2>2. OtherTypes'
    BY <1>3 DEF ReadConfig, OtherTypes, historyVars, Phases
  <2> QED
    BY <1>3, <2>1, <2>2, HandlersUnchanged DEF ReadConfig
<1>4. CASE CreateIdentity
  <2>1. serials + 1 \in 0..MaxSN
    BY <1>4, ConfigAssumption DEF CreateIdentity, OtherTypes
  <2>2. file.content \in Configs /\ Storable(file.content)
    BY DEF ConfigTypes
  <2>3. config' = [file.content EXCEPT !.identity = TRUE, !.sn = serials + 1]
    BY <1>4 DEF CreateIdentity
  <2>4. config' \in Configs
    BY <2>1, <2>2, <2>3 DEF Configs
  <2>5. Storable(config')
    BY <2>2, <2>3 DEF Configs, Storable
  <2>6. ConfigTypes'
    BY <1>4, <2>4, <2>5, FileTypes DEF CreateIdentity, ConfigTypes
  <2>7. OtherTypes'
    BY <1>4, <2>1 DEF CreateIdentity, OtherTypes, historyVars, Phases
  <2> QED
    BY <1>4, <2>6, <2>7, HandlersUnchanged DEF CreateIdentity
<1>5. CASE IdentityCreated
  <2>1. ConfigTypes'
    BY <1>5, FileTypes DEF IdentityCreated, ConfigTypes
  <2>2. OtherTypes'
    BY <1>5 DEF IdentityCreated, OtherTypes, historyVars, Phases
  <2> QED
    BY <1>5, <2>1, <2>2, HandlersUnchanged DEF IdentityCreated
<1>6. CASE MqttConnect
  <2>1. CASE Unsecured(config)
    <3>1. config' = [config EXCEPT !.mqtt = Encrypt(config, Characters(config.mqtt))]
      BY <1>6, <2>1 DEF MqttConnect
    <3>2. Encrypt(config, Characters(config.mqtt))
            \in Cipher(Passwords \cup LongPasswords \cup {"ciphertext"})
      BY <2>1, ConfigFields DEF Unsecured, Encrypt, Characters, Cipher, ConfigTypes
    <3>3. config' \in Configs /\ Storable(config')
      BY <3>1, <3>2 DEF Configs, Storable, ConfigTypes
    <3>4. ConfigTypes'
      BY <1>6, <2>1, <3>3, FileTypes DEF MqttConnect, ConfigTypes
    <3> QED
      BY <1>6, <2>1, <3>4, HandlersUnchanged
         DEF MqttConnect, OtherTypes, historyVars, Phases
  <2>2. CASE ~Unsecured(config)
    BY <1>6, <2>2, HandlersUnchanged
       DEF MqttConnect, ConfigTypes, OtherTypes, historyVars, Phases
  <2> QED
    BY <2>1, <2>2
<1>7. CASE PasswordSecured
  <2>1. ConfigTypes'
    BY <1>7, FileTypes DEF PasswordSecured, ConfigTypes
  <2>2. OtherTypes'
    BY <1>7 DEF PasswordSecured, OtherTypes, historyVars, Phases
  <2> QED
    BY <1>7, <2>1, <2>2, HandlersUnchanged DEF PasswordSecured
<1>8. CASE Run
  <2>1. CASE Ended
    BY <1>8, <2>1, EndedKeepsTypes DEF Run, ConfigTypes, HandlerTypes, OtherTypes
  <2>2. CASE ~Ended
    <3>1. /\ server' = ServerAfterRun(config)
          /\ phase' = "running"
          /\ UNCHANGED <<config, handlerVars, overlapped, file, serials, password, rekeyed>>
      BY <1>8, <2>2 DEF Run
    <3>2. OtherTypes'
      BY <3>1, ServerAfterRunTypes DEF OtherTypes, ConfigTypes, Phases
    <3> QED
      BY <3>1, <3>2, HandlersUnchanged DEF ConfigTypes
  <2> QED
    BY <2>1, <2>2
<1> QED
  BY <1>1, <1>2, <1>3, <1>4, <1>5, <1>6, <1>7, <1>8 DEF StartUp

\* A write of the remote device and the storing of its values keep the types.
LEMMA RemoteWriteKeepsTypes ==
    ASSUME TypeInv, NEW l \in Limits, NEW d \in Durations, RemoteWrite(l, d)
    PROVE  TypeInv'
<1>1. HandlerTypes /\ ConfigTypes /\ OtherTypes
  BY TypeInvParts
<1>2. PICK h \in Handlers : /\ step' = [step EXCEPT ![h] = "read"]
                            /\ half' = [half EXCEPT ![h] = "failsafe"]
  BY DEF RemoteWrite
<1>3. UNCHANGED <<read, encoded>>
  BY DEF RemoteWrite
<1>4. step' \in [Handlers -> Steps] /\ half' \in [Handlers -> {"failsafe", "duration"}]
  BY <1>1, <1>2 DEF HandlerTypes, Steps
<1>5. \A i \in Handlers : ReadKind(i)'
  BY <1>1, <1>2, <1>3 DEF HandlerTypes, ReadKind
<1>6. HandlerTypes'
  BY <1>1, <1>3, <1>4, <1>5 DEF HandlerTypes
<1>7. server'.failsafe = l /\ server'.duration = d
  BY DEF RemoteWrite
<1>8. OtherTypes'
  BY <1>1, <1>7 DEF RemoteWrite, OtherTypes, FailsafeValues, DurationValues
<1>9. ConfigTypes'
  BY <1>1 DEF RemoteWrite, ConfigTypes
<1> QED
  BY <1>6, <1>8, <1>9, TypeInvParts

\* The three steps of a goroutine that move on and change one thing.
LEMMA HandlerMoves ==
    ASSUME HandlerTypes, NEW h \in Handlers, NEW s \in Steps \ {"assign"},
           step' = [step EXCEPT ![h] = s], UNCHANGED <<half, read, encoded>>
    PROVE  HandlerTypes'
<1>1. step' \in [Handlers -> Steps]
  BY DEF HandlerTypes
<1>2. \A i \in Handlers : ReadKind(i)'
  BY DEF HandlerTypes, ReadKind
<1> QED
  BY <1>1, <1>2 DEF HandlerTypes

\* The handlers of failsafe events keep the types.
LEMMA StoreFailsafeKeepsTypes ==
    ASSUME TypeInv, NEW h \in Handlers, StoreFailsafe(h)
    PROVE  TypeInv'
<1>1. HandlerTypes /\ ConfigTypes /\ OtherTypes
  BY TypeInvParts
<1>2. half[h] \in {"failsafe", "duration"}
  BY <1>1 DEF HandlerTypes
<1>3. CASE ReadServer(h)
  <2>1. ConfigTypes' /\ OtherTypes'
    BY <1>1, <1>3 DEF ReadServer, ConfigTypes, OtherTypes, historyVars
  <2>2. /\ step' = [step EXCEPT ![h] = "assign"]
        /\ read' = [read EXCEPT ![h] = server[half[h]]]
        /\ UNCHANGED <<half, encoded>>
    BY <1>3 DEF ReadServer
  <2>3. Truncate(server[half[h]]) \in
          IF half[h] = "failsafe" THEN FailsafeTexts ELSE DurationTexts
    BY <1>1, <1>2, ValueTypes DEF OtherTypes
  <2>4. server[half[h]] \in Quantities
    BY <1>1, <1>2, ValueTypes DEF OtherTypes
  <2>5. step' \in [Handlers -> Steps] /\ read' \in [Handlers -> Quantities]
    BY <1>1, <2>2, <2>4 DEF HandlerTypes, Steps
  <2>6. \A i \in Handlers : ReadKind(i)'
    BY <1>1, <2>2, <2>3 DEF HandlerTypes, ReadKind
  <2>7. HandlerTypes'
    BY <1>1, <2>2, <2>5, <2>6 DEF HandlerTypes
  <2> QED
    BY <2>1, <2>7, TypeInvParts
<1>4. CASE AssignConfig(h)
  <2>1. /\ step[h] = "assign"
        /\ config' = [config EXCEPT ![half[h]] = Encrypt(config, Truncate(read[h]))]
        /\ step' = [step EXCEPT ![h] = "create"]
        /\ UNCHANGED <<half, read, encoded, file>>
    BY <1>4 DEF AssignConfig
  <2>2. ReadKind(h)
    BY <1>1 DEF HandlerTypes
  <2>3. config \in Configs /\ Storable(config)
    BY <1>1 DEF ConfigTypes
  <2>4. config' \in Configs /\ Storable(config')
    <3>1. CASE half[h] = "failsafe"
      <4>1. Encrypt(config, Truncate(read[h])) \in Cipher(FailsafeTexts \cup {NoText})
        BY <2>1, <2>2, <2>3, <3>1, ConfigFields
           DEF ReadKind, Encrypt, Cipher
      <4>2. config' = [config EXCEPT !.failsafe = Encrypt(config, Truncate(read[h]))]
        BY <2>1, <3>1
      <4>3. config' \in Configs
        BY <2>3, <4>1, <4>2 DEF Configs
      <4>4. /\ config'.failsafe.text \in FailsafeTexts
            /\ config'.duration = config.duration
        BY <2>1, <2>2, <2>3, <3>1, <4>2 DEF Configs, Encrypt, ReadKind
      <4> QED
        BY <2>3, <4>3, <4>4 DEF Storable
    <3>2. CASE half[h] = "duration"
      <4>1. Encrypt(config, Truncate(read[h])) \in Cipher(DurationTexts \cup {NoText})
        BY <2>1, <2>2, <2>3, <3>2, ConfigFields
           DEF ReadKind, Encrypt, Cipher
      <4>2. config' = [config EXCEPT !.duration = Encrypt(config, Truncate(read[h]))]
        BY <2>1, <3>2
      <4>3. config' \in Configs
        BY <2>3, <4>1, <4>2 DEF Configs
      <4>4. /\ config'.duration.text \in DurationTexts
            /\ config'.failsafe = config.failsafe
        BY <2>1, <2>2, <2>3, <3>2, <4>2 DEF Configs, Encrypt, ReadKind
      <4> QED
        BY <2>3, <4>3, <4>4 DEF Storable
    <3> QED
      BY <1>2, <3>1, <3>2
  <2>5. ConfigTypes'
    BY <1>1, <2>1, <2>4 DEF ConfigTypes
  <2>6. OtherTypes'
    BY <1>1, <1>4 DEF AssignConfig, OtherTypes, historyVars
  <2>7. HandlerTypes'
    BY <1>1, <2>1, HandlerMoves DEF Steps
  <2> QED
    BY <2>5, <2>6, <2>7, TypeInvParts
<1>5. CASE CreateFile(h)
  <2>1. ConfigTypes' /\ OtherTypes'
    BY <1>1, <1>5, FileTypes DEF CreateFile, ConfigTypes, OtherTypes, historyVars
  <2>2. HandlerTypes'
    BY <1>1, <1>5, HandlerMoves DEF CreateFile, Steps
  <2> QED
    BY <2>1, <2>2, TypeInvParts
<1>6. CASE Marshal(h)
  <2>1. ConfigTypes' /\ OtherTypes'
    BY <1>1, <1>6 DEF Marshal, ConfigTypes, OtherTypes, historyVars
  <2>2. /\ step' = [step EXCEPT ![h] = "write"]
        /\ encoded' = [encoded EXCEPT ![h] = config]
        /\ UNCHANGED <<half, read>>
    BY <1>6 DEF Marshal
  <2>3. step' \in [Handlers -> Steps] /\ encoded' \in [Handlers -> Configs]
    BY <1>1, <2>2 DEF HandlerTypes, ConfigTypes, Steps
  <2>4. \A i \in Handlers : Storable(encoded'[i]) /\ ReadKind(i)'
    BY <1>1, <2>2 DEF HandlerTypes, ConfigTypes, ReadKind
  <2>5. HandlerTypes'
    BY <1>1, <2>2, <2>3, <2>4 DEF HandlerTypes
  <2> QED
    BY <2>1, <2>5, TypeInvParts
<1>7. CASE WriteFile(h)
  <2>1. encoded[h] \in Configs /\ Storable(encoded[h])
    BY <1>1 DEF HandlerTypes
  <2>2. ConfigTypes' /\ OtherTypes'
    BY <1>1, <1>7, <2>1, FileTypes DEF WriteFile, ConfigTypes, OtherTypes, historyVars
  <2>3. /\ step' = [step EXCEPT ![h] = Following(h)]
        /\ half' = [half EXCEPT ![h] = "duration"]
        /\ read' = [read EXCEPT ![h] = WholeNumber(0)]
        /\ encoded' = [encoded EXCEPT ![h] = NoConfig]
    BY <1>7 DEF WriteFile
  <2>4. Following(h) \in Steps \ {"assign"}
    BY DEF Following, Steps
  <2>5. /\ step' \in [Handlers -> Steps]
        /\ half' \in [Handlers -> {"failsafe", "duration"}]
        /\ read' \in [Handlers -> Quantities]
        /\ encoded' \in [Handlers -> Configs]
    BY <1>1, <2>3, <2>4, NoConfigTypes, ValueTypes DEF HandlerTypes
  <2>6. \A i \in Handlers : Storable(encoded'[i])
    BY <1>1, <2>3, NoConfigTypes DEF HandlerTypes
  <2>7. \A i \in Handlers : ReadKind(i)'
    BY <1>1, <2>3, <2>4 DEF HandlerTypes, ReadKind
  <2>8. HandlerTypes'
    BY <2>5, <2>6, <2>7 DEF HandlerTypes
  <2> QED
    BY <2>2, <2>8, TypeInvParts
<1> QED
  BY <1>3, <1>4, <1>5, <1>6, <1>7 DEF StoreFailsafe

\* The user keeps the types.
LEMMA UserKeepsTypes == TypeInv /\ User => TypeInv'
<1> SUFFICES ASSUME HandlerTypes, ConfigTypes, OtherTypes, User
             PROVE  HandlerTypes' /\ ConfigTypes' /\ OtherTypes'
  BY TypeInvParts
<1>1. file.content \in Configs /\ Storable(file.content)
  BY DEF ConfigTypes
<1>2. CASE EnterRemoteSki
  <2>1. file' = [file EXCEPT !.content.remoteSki = TRUE]
    BY <1>2 DEF EnterRemoteSki
  <2>2. /\ file'.content = [file.content EXCEPT !.remoteSki = TRUE]
        /\ file' \in [state : {"absent", "truncated", "written"}, content : Configs]
    BY <1>1, <2>1 DEF ConfigTypes, Configs
  <2>3. Storable(file'.content)
    BY <1>1, <2>2 DEF Storable, Configs
  <2> QED
    BY <1>2, <2>2, <2>3, HandlersUnchanged
       DEF EnterRemoteSki, ConfigTypes, OtherTypes, historyVars
<1>3. ASSUME NEW p \in Passwords \cup LongPasswords, EnterPassword(p)
      PROVE  HandlerTypes' /\ ConfigTypes' /\ OtherTypes'
  <2>1. file' = [file EXCEPT !.content.mqtt = Plain(p)]
    BY <1>3 DEF EnterPassword
  <2>2. Plain(p) \in Cipher(Passwords \cup LongPasswords \cup {"ciphertext"})
    BY ConfigAssumption DEF Plain, Cipher
  <2>3. /\ file'.content = [file.content EXCEPT !.mqtt = Plain(p)]
        /\ file' \in [state : {"absent", "truncated", "written"}, content : Configs]
    BY <1>1, <2>1, <2>2 DEF ConfigTypes, Configs
  <2>4. Storable(file'.content)
    BY <1>1, <2>3 DEF Storable, Configs
  <2> QED
    BY <1>3, <2>3, <2>4, HandlersUnchanged DEF EnterPassword, ConfigTypes, OtherTypes
<1>4. CASE RemoveIdentity
  <2>1. file' = [file EXCEPT !.content.identity = FALSE]
    BY <1>4 DEF RemoveIdentity
  <2>2. /\ file'.content = [file.content EXCEPT !.identity = FALSE]
        /\ file' \in [state : {"absent", "truncated", "written"}, content : Configs]
    BY <1>1, <2>1 DEF ConfigTypes, Configs
  <2>3. Storable(file'.content)
    BY <1>1, <2>2 DEF Storable, Configs
  <2> QED
    BY <1>4, <2>2, <2>3, HandlersUnchanged DEF RemoveIdentity, ConfigTypes, OtherTypes
<1>5. CASE DeleteConfig
  <2>1. HandlerTypes' /\ ConfigTypes'
    BY <1>5, HandlersUnchanged, FileTypes DEF DeleteConfig, ConfigTypes
  <2>2. /\ password' = NoPassword /\ rekeyed' = FALSE /\ serials' = 0
        /\ UNCHANGED <<phase, server, overlapped>>
    BY <1>5 DEF DeleteConfig
  <2>3. NoPassword \in Passwords /\ 0 \in 0..MaxSN
    BY ConfigAssumption
  <2> QED
    BY <2>1, <2>2, <2>3 DEF OtherTypes
<1> QED
  BY <1>2, <1>3, <1>4, <1>5 DEF User

\* Every step keeps the types.
LEMMA StepTypes == TypeInv /\ [Next]_vars => TypeInv'
<1> SUFFICES ASSUME TypeInv, [Next]_vars PROVE TypeInv'
  OBVIOUS
<1>1. CASE Crash
  <2>1. Ended /\ UNCHANGED <<file, serials, password, rekeyed>>
    BY <1>1 DEF Crash
  <2> QED
    BY <2>1, EndedKeepsTypes, TypeInvParts DEF ConfigTypes, HandlerTypes, OtherTypes
<1>2. CASE UNCHANGED vars
  BY <1>2, HandlersUnchanged, TypeInvParts
     DEF vars, historyVars, ConfigTypes, OtherTypes
<1> QED
  BY <1>1, <1>2, StartUpKeepsTypes, RemoteWriteKeepsTypes, StoreFailsafeKeepsTypes,
     UserKeepsTypes DEF Next

\* Every variable has a value the code can give it; in particular the server is
\* never given the text of a value that was not encrypted (TypeInv).
THEOREM TypeCorrect == Spec => []TypeOK
<1>1. TypeInv => TypeOK
  BY DEF TypeInv
<1> QED
  BY <1>1, InitTypes, StepTypes, PTL DEF Spec

-----------------------------------------------------------------------------
(* The password.                                                           *)

\* The invariant of the start holds at first.
LEMMA InitStart == Init => StartInv
BY DEF Init, StartInv, Absent, Idle

\* A process that ended: the file is all that counts.
LEMMA EndedKeepsStart ==
    ASSUME StartInv, Ended, UNCHANGED <<password, rekeyed, serials>>,
           \/ UNCHANGED file
           \/ file' = Written(config) /\ phase # "down"
    PROVE  StartInv'
<1>1. phase' = "down" /\ \A h \in Handlers : step'[h] = "idle"
  BY DEF Ended
<1>2. /\ file'.state = "absent" => password' = NoPassword /\ ~rekeyed'
      /\ file'.state = "written" => PasswordKept(file.content)'
  <2>1. CASE UNCHANGED file
    BY <2>1 DEF StartInv, PasswordKept
  <2>2. CASE file' = Written(config) /\ phase # "down"
    <3>1. PasswordKept(config)
      BY <2>2 DEF StartInv
    <3>2. file'.state = "written" /\ file'.content = config
      BY <2>2 DEF Written
    <3> QED
      BY <3>1, <3>2 DEF PasswordKept
  <2> QED
    BY <2>1, <2>2
<1> QED
  BY <1>1, <1>2 DEF StartInv, Idle, PasswordKept

\* Every step keeps the invariant of the start: those of the start itself,
LEMMA StartUpKeepsStart == TypeInv /\ StartInv /\ StartUp => StartInv'
<1> SUFFICES ASSUME TypeInv, StartInv, StartUp PROVE StartInv'
  OBVIOUS
<1>1. file.content \in Configs /\ config \in Configs /\ serials \in Nat
  BY ConfigAssumption DEF TypeInv, TypeOK
<1>2. CASE GenerateConfig
  <2>1. /\ file = Absent /\ phase = "down"
        /\ config' = NewConfig(serials + 1)
        /\ file' = Truncated
        /\ phase' = "generating"
        /\ serials' = serials + 1
        /\ UNCHANGED <<password, rekeyed, step, encoded>>
    BY <1>2 DEF GenerateConfig, historyVars, handlerVars
  <2>2. password = NoPassword /\ ~rekeyed
    BY <2>1 DEF StartInv, Absent
  <2>4. PasswordKept(config)'
    BY <1>1, <2>1, <2>2 DEF PasswordKept, NewConfig, Plain
  <2>5. Idle /\ Idle'
    BY <2>1 DEF StartInv, Idle
  <2> QED
    BY <2>1, <2>4, <2>5 DEF StartInv, Idle, Truncated
<1>3. CASE ConfigGenerated
  BY <1>3, EndedKeepsStart DEF ConfigGenerated
<1>4. CASE ReadConfig
  <2>1. /\ phase = "down" /\ phase' = "connecting"
        /\ file.state = "written" /\ Complete(file.content)
        /\ config' = file.content
        /\ UNCHANGED <<file, password, rekeyed, serials, step, encoded>>
    BY <1>4 DEF ReadConfig, historyVars, handlerVars
  <2>2. PasswordKept(file.content)
    BY <2>1 DEF StartInv
  <2>3. PasswordKept(config)' /\ PasswordKept(file.content)'
    BY <2>1, <2>2 DEF PasswordKept
  <2>4. config'.identity
    BY <2>1 DEF Complete
  <2>5. Idle /\ Idle'
    BY <2>1 DEF StartInv, Idle
  <2> QED
    BY <2>1, <2>3, <2>4, <2>5 DEF StartInv, Idle
<1>5. CASE CreateIdentity
  <2>1. /\ phase = "down" /\ phase' = "identifying"
        /\ file.state = "written" /\ ~Complete(file.content)
        /\ config' = [file.content EXCEPT !.identity = TRUE, !.sn = serials + 1]
        /\ file' = Truncated
        /\ serials' = serials + 1
        /\ UNCHANGED <<password, rekeyed, step, encoded>>
    BY <1>5 DEF CreateIdentity, historyVars, handlerVars
  <2>2. PasswordKept(file.content)
    BY <2>1 DEF StartInv
  <2>3. ~file.content.identity
    BY <2>1, <2>2 DEF Complete, PasswordKept
  <2>4. /\ ~rekeyed => file.content.mqtt.key = 0
        /\ file.content.mqtt.key \in Nat
    BY <1>1, <2>2, <2>3, ConfigAssumption, ConfigFields DEF PasswordKept
  <2>5. /\ config'.identity = TRUE /\ config'.sn = serials + 1
        /\ config'.mqtt = file.content.mqtt
    BY <1>1, <2>1 DEF Configs
  <2>6. PasswordKept(config)'
    BY <1>1, <2>1, <2>2, <2>4, <2>5 DEF PasswordKept
  <2>7. Idle /\ Idle'
    BY <2>1 DEF StartInv, Idle
  <2> QED
    BY <2>1, <2>5, <2>6, <2>7 DEF StartInv, Idle, Truncated
<1>6. CASE IdentityCreated
  BY <1>6 DEF IdentityCreated, StartInv, PasswordKept, Written, Idle, handlerVars,
              historyVars
<1>7. CASE MqttConnect
  <2>1. /\ phase = "connecting"
        /\ UNCHANGED <<password, rekeyed, serials, step, encoded>>
        /\ PasswordKept(config) /\ config.identity
    BY <1>7 DEF MqttConnect, historyVars, handlerVars, StartInv
  <2>2. Idle /\ Idle'
    BY <2>1 DEF StartInv, Idle
  <2>3. CASE Unsecured(config)
    <3>1. /\ config' = [config EXCEPT !.mqtt = Encrypt(config, Characters(config.mqtt))]
          /\ file' = Truncated /\ phase' = "securing"
      BY <1>7, <2>3 DEF MqttConnect
    <3>2. config'.mqtt = [key |-> config.sn, text |-> config.mqtt.text]
      BY <1>1, <2>3, <3>1 DEF Configs, Encrypt, Characters, Unsecured
    <3>3. config'.sn = config.sn /\ config'.identity = config.identity
      BY <1>1, <3>1 DEF Configs
    <3>4. PasswordKept(config)'
      BY <2>1, <2>3, <3>2, <3>3 DEF PasswordKept, Unsecured, Plain
    <3>5. ~Unsecured(config)'
      BY <2>1, <3>2 DEF Unsecured, PasswordKept
    <3> QED
      BY <2>1, <2>2, <3>1, <3>3, <3>4, <3>5 DEF StartInv, Idle, Truncated
  <2>4. CASE ~Unsecured(config)
    BY <1>7, <2>1, <2>2, <2>4
       DEF MqttConnect, StartInv, Idle, PasswordKept, Unsecured
  <2> QED
    BY <2>3, <2>4
<1>8. CASE PasswordSecured
  BY <1>8 DEF PasswordSecured, StartInv, PasswordKept, Unsecured, Written, Idle,
              handlerVars, historyVars
<1>9. CASE Run
  <2>1. CASE Ended
    BY <1>9, <2>1, EndedKeepsStart DEF Run
  <2>2. CASE ~Ended
    BY <1>9, <2>2 DEF Run, StartInv, PasswordKept, Unsecured, Idle, handlerVars
  <2> QED
    BY <2>1, <2>2
<1> QED
  BY <1>2, <1>3, <1>4, <1>5, <1>6, <1>7, <1>8, <1>9 DEF StartUp

\* A goroutine runs in a running process only, and leaves the password alone.
LEMMA StoreFailsafeKeepsStart ==
    ASSUME TypeInv, StartInv, NEW h \in Handlers, StoreFailsafe(h)
    PROVE  StartInv'
<1>1. step[h] # "idle" /\ UNCHANGED <<phase, password, rekeyed, serials>>
  BY DEF StoreFailsafe, ReadServer, AssignConfig, CreateFile, Marshal, WriteFile,
         historyVars
<1>2. phase = "running"
  BY <1>1 DEF StartInv, Idle
<1>3. /\ PasswordKept(config) /\ config.identity /\ ~Unsecured(config)
      /\ file.state # "absent"
      /\ file.state = "written" => PasswordKept(file.content)
      /\ \A i \in Handlers :
           step[i] = "write" => PasswordKept(encoded[i]) /\ encoded[i].identity
  BY <1>2 DEF StartInv
<1>4. /\ config \in Configs
      /\ step \in [Handlers -> Steps]
      /\ encoded \in [Handlers -> Configs]
      /\ half[h] \in {"failsafe", "duration"}
  BY DEF TypeInv, TypeOK
<1>5. /\ config'.sn = config.sn /\ config'.identity = config.identity
      /\ config'.mqtt = config.mqtt
  <2>1. CASE AssignConfig(h)
    <3>1. config' = [config EXCEPT ![half[h]] = Encrypt(config, Truncate(read[h]))]
      BY <2>1 DEF AssignConfig
    <3> QED
      BY <1>4, <3>1 DEF Configs
  <2> QED
    BY <2>1 DEF StoreFailsafe, ReadServer, CreateFile, Marshal, WriteFile
<1>6. PasswordKept(config)' /\ config'.identity /\ ~Unsecured(config)'
  BY <1>1, <1>3, <1>5 DEF PasswordKept, Unsecured
<1>7. file'.state # "absent" /\ (file'.state = "written" => PasswordKept(file.content)')
  <2>1. CASE CreateFile(h)
    BY <2>1 DEF CreateFile, Truncated
  <2>2. CASE WriteFile(h)
    BY <1>1, <1>3, <2>2 DEF WriteFile, Written, PasswordKept
  <2>3. CASE UNCHANGED file
    BY <1>1, <1>3, <2>3 DEF PasswordKept
  <2> QED
    BY <2>1, <2>2, <2>3 DEF StoreFailsafe, ReadServer, AssignConfig, Marshal
<1>8. ASSUME NEW i \in Handlers, step'[i] = "write"
      PROVE  PasswordKept(encoded[i])' /\ encoded'[i].identity
  <2>1. CASE Marshal(h) /\ i = h
    <3>1. encoded'[i] = config
      BY <1>4, <2>1 DEF Marshal
    <3> QED
      BY <1>1, <1>3, <3>1 DEF PasswordKept
  <2>2. CASE ~(Marshal(h) /\ i = h)
    <3>1. step[i] = "write" /\ encoded'[i] = encoded[i]
      BY <1>4, <1>8, <2>2
         DEF StoreFailsafe, ReadServer, AssignConfig, CreateFile, Marshal, WriteFile,
             Following
    <3> QED
      BY <1>1, <1>3, <3>1 DEF PasswordKept
  <2> QED
    BY <2>1, <2>2
<1> QED
  BY <1>1, <1>2, <1>6, <1>7, <1>8 DEF StartInv

\* those of the user,
LEMMA UserKeepsStart == TypeInv /\ StartInv /\ User => StartInv'
<1> SUFFICES ASSUME TypeInv, StartInv, User PROVE StartInv'
  OBVIOUS
<1>1. phase = "down" /\ UNCHANGED <<phase, step>>
  BY DEF User, EnterRemoteSki, EnterPassword, RemoveIdentity, DeleteConfig, Editable,
         handlerVars
<1>2. \A h \in Handlers : step'[h] = "idle"
  BY <1>1 DEF StartInv, Idle
<1>3. file \in [state : {"absent", "truncated", "written"}, content : Configs]
      /\ file.content \in Configs
      /\ serials \in Nat
  BY ConfigAssumption DEF TypeInv, TypeOK
<1>4. file'.state = "absent" => password' = NoPassword /\ ~rekeyed'
  BY <1>3 DEF User, EnterRemoteSki, EnterPassword, RemoveIdentity, DeleteConfig, Editable
<1>5. file'.state = "written" => PasswordKept(file.content)'
  <2>1. CASE EnterRemoteSki
    <3>1. file'.content = [file.content EXCEPT !.remoteSki = TRUE]
      BY <1>3, <2>1 DEF EnterRemoteSki
    <3> QED
      BY <1>3, <2>1, <3>1
         DEF EnterRemoteSki, Editable, StartInv, PasswordKept, Configs, historyVars
  <2>2. ASSUME NEW p \in Passwords \cup LongPasswords, EnterPassword(p)
        PROVE  PasswordKept(file.content)'
    <3>1. file'.content = [file.content EXCEPT !.mqtt = Plain(p)]
      BY <1>3, <2>2 DEF EnterPassword
    <3> QED
      BY <1>3, <2>2, <3>1
         DEF EnterPassword, Editable, StartInv, PasswordKept, Plain, Configs
  <2>3. CASE RemoveIdentity
    <3>1. file'.content = [file.content EXCEPT !.identity = FALSE]
      BY <1>3, <2>3 DEF RemoveIdentity
    <3> QED
      BY <1>3, <2>3, <3>1 DEF RemoveIdentity, Editable, StartInv, PasswordKept, Configs
  <2>4. CASE DeleteConfig
    BY <2>4 DEF DeleteConfig, Absent
  <2> QED
    BY <2>1, <2>2, <2>3, <2>4 DEF User
<1> QED
  BY <1>1, <1>2, <1>4, <1>5 DEF StartInv, Idle

\* and so all of them.
LEMMA StepStart == TypeInv /\ StartInv /\ [Next]_vars => StartInv'
<1> SUFFICES ASSUME TypeInv, StartInv, [Next]_vars PROVE StartInv'
  OBVIOUS
<1>1. CASE Crash
  BY <1>1, EndedKeepsStart DEF Crash
<1>2. ASSUME NEW l \in Limits, NEW d \in Durations, RemoteWrite(l, d)
      PROVE  StartInv'
  <2>1. /\ phase = "running"
        /\ UNCHANGED <<file, config, phase, encoded, serials, password, rekeyed>>
        /\ \E h \in Handlers : step' = [step EXCEPT ![h] = "read"]
    BY <1>2 DEF RemoteWrite
  <2>2. step \in [Handlers -> Steps]
    BY DEF TypeInv, TypeOK
  <2>3. \A h \in Handlers : step'[h] = "write" => step[h] = "write"
    BY <2>1, <2>2
  <2> QED
    BY <2>1, <2>3 DEF StartInv, PasswordKept, Unsecured
<1>3. CASE UNCHANGED vars
  BY <1>3 DEF vars, handlerVars, historyVars, StartInv, PasswordKept, Unsecured, Idle
<1> QED
  BY <1>1, <1>2, <1>3, StartUpKeepsStart, StoreFailsafeKeepsStart, UserKeepsStart DEF Next

\* At every start the broker is given the password the user entered last, or an
\* empty one when that is long or encrypted under an identity removed since.
THEOREM PasswordCorrect == Spec => []PasswordUsable
<1>1. StartInv => PasswordUsable
  BY ConfigAssumption
     DEF StartInv, PasswordUsable, PasswordKept, BrokerPassword, Decryptable, Unsecured,
         Plain
<1> QED
  BY <1>1, InitTypes, StepTypes, InitStart, StepStart, PTL DEF Spec

-----------------------------------------------------------------------------
(* The failsafe values.                                                    *)

\* The invariant of the failsafe data holds at first.
LEMMA InitFailsafe == Init => FailsafeInv
BY DEF Init, FailsafeInv

\* It says nothing while no process runs.
LEMMA EndedKeepsFailsafe == Ended => FailsafeInv'
BY DEF Ended, FailsafeInv

\* What is stored in the configuration depends on its encrypted values and serial
\* number alone.
LEMMA StoredByFields ==
    ASSUME NEW c, NEW d, c.sn = d.sn
    PROVE  /\ c.failsafe = d.failsafe =>
                ServerAfterRun(c).failsafe = ServerAfterRun(d).failsafe
           /\ c.duration = d.duration =>
                ServerAfterRun(c).duration = ServerAfterRun(d).duration
BY ServerFields DEF GetFailsafeLPP, Decryptable

\* What was just encrypted comes back at the next start.
LEMMA StoredOnceEncrypted ==
    ASSUME NEW c, c.sn # 0, NEW v
    PROVE  /\ c.failsafe = [key |-> c.sn, text |-> v] =>
                ServerAfterRun(c).failsafe = WholeNumber(v)
           /\ c.duration = [key |-> c.sn, text |-> v] =>
                ServerAfterRun(c).duration = WholeNumber(Accepted(v))
<1>1. ASSUME c.failsafe = [key |-> c.sn, text |-> v]
      PROVE  ServerAfterRun(c).failsafe = WholeNumber(v)
  <2>1. GetFailsafeLPP(c).failsafe = v
    BY <1>1 DEF GetFailsafeLPP, Decryptable
  <2> QED
    BY <2>1, ServerFields
<1>2. ASSUME c.duration = [key |-> c.sn, text |-> v]
      PROVE  ServerAfterRun(c).duration = WholeNumber(Accepted(v))
  <2>1. GetFailsafeLPP(c).duration = v
    BY <1>2 DEF GetFailsafeLPP, Decryptable
  <2> QED
    BY <2>1, ServerFields
<1> QED
  BY <1>1, <1>2

\* What run() gave the server survives as it is.
LEMMA RunSurvives ==
    ASSUME NEW c, NEW held, held = ServerAfterRun(c)
    PROVE  Surviving(held) = ServerAfterRun(c)
<1>1. \A n : Truncate(WholeNumber(n)) = n
  BY DEF Truncate, WholeNumber
<1>2. \A n : Accepted(Accepted(n)) = Accepted(n)
  <2>1. TwoHours \in TwoHours..OneDay
    BY DEF TwoHours, OneDay
  <2>2. \A n : Accepted(n) \in TwoHours..OneDay
    BY <2>1, Zenon DEF Accepted
  <2>3. \A n \in TwoHours..OneDay : Accepted(n) = n
    BY Zenon DEF Accepted
  <2> QED
    BY <2>2, <2>3, Zenon
<1>3. /\ Truncate(held.failsafe) = GetFailsafeLPP(c).failsafe
      /\ Accepted(Truncate(held.duration)) = Accepted(GetFailsafeLPP(c).duration)
  BY <1>1, <1>2, ServerFields
<1> QED
  BY <1>3 DEF Surviving, ServerAfterRun

\* It is kept by the steps of a start,
LEMMA StartUpKeepsFailsafe ==
    TypeInv /\ StartInv /\ FailsafeInv /\ StartUp => FailsafeInv'
<1> SUFFICES ASSUME TypeInv, StartInv, FailsafeInv, StartUp PROVE FailsafeInv'
  OBVIOUS
<1>1. CASE GenerateConfig
  BY <1>1 DEF GenerateConfig, FailsafeInv
<1>2. CASE ConfigGenerated
  BY <1>2, EndedKeepsFailsafe DEF ConfigGenerated
<1>3. CASE ReadConfig
  <2>1. file = Written(file.content)
    BY <1>3 DEF ReadConfig, TypeInv, TypeOK, Written
  <2> QED
    BY <1>3, <2>1 DEF ReadConfig, FailsafeInv, Written
<1>4. CASE CreateIdentity
  BY <1>4 DEF CreateIdentity, FailsafeInv
<1>5. CASE IdentityCreated
  BY <1>5 DEF IdentityCreated, FailsafeInv, Written
<1>6. CASE MqttConnect
  BY <1>6 DEF MqttConnect, FailsafeInv, Written
<1>7. CASE PasswordSecured
  BY <1>7 DEF PasswordSecured, FailsafeInv, Written
<1>8. CASE Run
  <2>1. CASE Ended
    BY <2>1, EndedKeepsFailsafe
  <2>2. CASE ~Ended
    <3>1. /\ phase = "starting" /\ phase' = "running"
          /\ server' = ServerAfterRun(config)
          /\ UNCHANGED <<config, handlerVars, overlapped, file>>
      BY <1>8, <2>2 DEF Run
    <3>2. \A h \in Handlers : step'[h] = "idle"
      BY <3>1 DEF StartInv, Idle, handlerVars
    <3>3. file' = Written(config')
      BY <3>1 DEF FailsafeInv
    <3>4. file' = Written(config)'
      BY <3>3 DEF Written
    <3>5. Surviving(server') = ServerAfterRun(config')
      BY <3>1, RunSurvives
    <3>6. StoredFailsafe(config)' /\ StoredDuration(config)'
      BY <3>5 DEF StoredFailsafe, StoredDuration, ServerAfterRun, GetFailsafeLPP,
                  Decryptable, Surviving
    <3> QED
      BY <3>1, <3>2, <3>4, <3>6 DEF FailsafeInv
  <2> QED
    BY <2>1, <2>2
<1> QED
  BY <1>1, <1>2, <1>3, <1>4, <1>5, <1>6, <1>7, <1>8 DEF StartUp

\* A write while no goroutine runs starts the only one; any other overlaps.
LEMMA RemoteWriteKeepsFailsafe ==
    ASSUME TypeInv, FailsafeInv, NEW l, NEW d, RemoteWrite(l, d)
    PROVE  FailsafeInv'
<1>1. phase' = "running" /\ overlapped' = (overlapped \/ ~Idle)
  BY DEF RemoteWrite
<1>2. PICK h \in Handlers : /\ step' = [step EXCEPT ![h] = "read"]
                            /\ half' = [half EXCEPT ![h] = "failsafe"]
  BY DEF RemoteWrite
<1>3. step \in [Handlers -> Steps] /\ half \in [Handlers -> {"failsafe", "duration"}]
  BY DEF TypeInv, TypeOK
<1>4. CASE ~Idle
  BY <1>1, <1>4 DEF FailsafeInv
<1>5. CASE Idle
  <2>1. step'[h] = "read" /\ half'[h] = "failsafe"
    BY <1>2, <1>3
  <2>2. \A i \in Handlers : step'[i] # "idle" => i = h
    BY <1>2, <1>3, <1>5 DEF Idle
  <2>3. Storing(h)'
    BY <2>1 DEF Storing, Assigned
  <2>4. ~Idle'
    BY <2>1 DEF Idle
  <2>5. \A i \in Handlers : step'[i] # "idle" => Storing(i)'
    BY <2>2, <2>3
  <2> QED
    BY <1>1, <2>2, <2>4, <2>5 DEF FailsafeInv
<1> QED
  BY <1>4, <1>5

\* A goroutine that runs alone: one step of it.
LEMMA StoreAlone ==
    ASSUME TypeInv, StartInv, FailsafeInv, NEW h \in Handlers, StoreFailsafe(h),
           phase = "running", ~overlapped
    PROVE  /\ step'[h] # "idle" => Storing(h)'
           /\ step'[h] = "idle" => /\ file' = Written(config)'
                                   /\ StoredFailsafe(config)'
                                   /\ StoredDuration(config)'
<1>1. step[h] # "idle" /\ UNCHANGED server
  BY DEF StoreFailsafe, ReadServer, AssignConfig, CreateFile, Marshal, WriteFile
<1>2. Storing(h)
  BY <1>1 DEF FailsafeInv
<1>3. /\ step \in [Handlers -> Steps]
      /\ half \in [Handlers -> {"failsafe", "duration"}]
      /\ half[h] \in {"failsafe", "duration"}
      /\ read \in [Handlers -> Quantities]
      /\ encoded \in [Handlers -> Configs]
      /\ config \in Configs
  BY DEF TypeInv, TypeOK
<1>4. config.sn # 0
  BY DEF StartInv, PasswordKept
<1>5. CASE ReadServer(h)
  <2>1. /\ step'[h] = "assign" /\ half'[h] = half[h] /\ read'[h] = server[half[h]]
        /\ UNCHANGED <<config, server>>
    BY <1>3, <1>5 DEF ReadServer
  <2> QED
    BY <1>2, <1>3, <2>1 DEF Storing, Assigned, StoredFailsafe
<1>6. CASE AssignConfig(h)
  <2>1. /\ step[h] = "assign" /\ step'[h] = "create" /\ half'[h] = half[h]
        /\ config' = [config EXCEPT ![half[h]] =
                        [key |-> config.sn, text |-> Truncate(read[h])]]
    BY <1>3, <1>6 DEF AssignConfig, Encrypt
  <2>2. config'.sn = config.sn
    BY <1>3, <2>1 DEF Configs
  <2>3. CASE half[h] = "failsafe"
    <3>1. config'.failsafe = [key |-> config'.sn, text |-> Truncate(server.failsafe)]
      BY <1>2, <1>3, <2>1, <2>2, <2>3 DEF Configs, Storing
    <3>2. ServerAfterRun(config').failsafe = Surviving(server').failsafe
      BY <1>1, <1>4, <2>2, <3>1, StoredOnceEncrypted, ServerFields
    <3> QED
      BY <2>1, <2>3, <3>2
         DEF Storing, StoredFailsafe, ServerAfterRun, GetFailsafeLPP, Decryptable,
             Surviving
  <2>4. CASE half[h] = "duration"
    <3>1. /\ config'.duration = [key |-> config'.sn, text |-> Truncate(server.duration)]
          /\ config'.failsafe = config.failsafe
      BY <1>2, <1>3, <2>1, <2>2, <2>4 DEF Configs, Storing
    <3>2. ServerAfterRun(config').failsafe = Surviving(server').failsafe
      BY <1>1, <1>2, <2>2, <2>4, <3>1, StoredByFields DEF Storing, StoredFailsafe
    <3>3. ServerAfterRun(config').duration = Surviving(server').duration
      BY <1>1, <1>4, <2>2, <3>1, StoredOnceEncrypted, ServerFields
    <3> QED
      BY <2>1, <2>4, <3>2, <3>3
         DEF Storing, StoredFailsafe, StoredDuration, ServerAfterRun, GetFailsafeLPP,
             Decryptable, Surviving
  <2> QED
    BY <1>3, <2>3, <2>4
<1>7. CASE CreateFile(h)
  <2>1. /\ step[h] = "create" /\ step'[h] = "marshal" /\ half'[h] = half[h]
        /\ UNCHANGED <<config, server>>
    BY <1>3, <1>7 DEF CreateFile
  <2> QED
    BY <1>2, <2>1 DEF Storing, Assigned, StoredFailsafe, StoredDuration
<1>8. CASE Marshal(h)
  <2>1. /\ step[h] = "marshal" /\ step'[h] = "write" /\ half'[h] = half[h]
        /\ encoded'[h] = config
        /\ UNCHANGED <<config, server>>
    BY <1>3, <1>8 DEF Marshal
  <2> QED
    BY <1>2, <2>1 DEF Storing, Assigned, StoredFailsafe, StoredDuration
<1>9. CASE WriteFile(h)
  <2>1. /\ step[h] = "write" /\ step'[h] = Following(h) /\ half'[h] = "duration"
        /\ file' = Written(encoded[h])
        /\ UNCHANGED <<config, server>>
    BY <1>3, <1>9 DEF WriteFile
  <2>2. CASE half[h] = "failsafe"
    <3>1. step'[h] = "read"
      BY <2>1, <2>2 DEF Following
    <3> QED
      BY <1>2, <2>1, <2>2, <3>1 DEF Storing, Assigned, StoredFailsafe
  <2>3. CASE half[h] = "duration"
    <3>1. step'[h] = "idle" /\ encoded[h] = config
      BY <1>2, <2>1, <2>3 DEF Following, Storing
    <3>2. StoredFailsafe(config) /\ StoredDuration(config)
      BY <1>2, <2>1, <2>3 DEF Storing, Assigned
    <3> QED
      BY <2>1, <3>1, <3>2 DEF StoredFailsafe, StoredDuration, Written
  <2> QED
    BY <1>3, <2>2, <2>3
<1> QED
  BY <1>5, <1>6, <1>7, <1>8, <1>9 DEF StoreFailsafe

\* by the handlers of failsafe events,
LEMMA StoreFailsafeKeepsFailsafe ==
    ASSUME TypeInv, StartInv, FailsafeInv, NEW h \in Handlers, StoreFailsafe(h)
    PROVE  FailsafeInv'
<1>1. step[h] # "idle" /\ UNCHANGED <<phase, overlapped>>
  BY DEF StoreFailsafe, ReadServer, AssignConfig, CreateFile, Marshal, WriteFile,
         historyVars
<1>2. phase = "running"
  BY <1>1 DEF StartInv, Idle
<1>3. CASE overlapped
  BY <1>1, <1>2, <1>3 DEF FailsafeInv
<1>4. CASE ~overlapped
  <2>1. \A i \in Handlers : i # h => step[i] = "idle"
    BY <1>1, <1>2, <1>4 DEF FailsafeInv
  <2>2. \A i \in Handlers : i # h => step'[i] = "idle"
    <3>1. \E s : step' = [step EXCEPT ![h] = s]
      BY DEF StoreFailsafe, ReadServer, AssignConfig, CreateFile, Marshal, WriteFile
    <3> QED
      BY <2>1, <3>1 DEF TypeInv, TypeOK
  <2>3. /\ step'[h] # "idle" => Storing(h)'
        /\ step'[h] = "idle" => /\ file' = Written(config)'
                                /\ StoredFailsafe(config)'
                                /\ StoredDuration(config)'
    BY <1>2, <1>4, StoreAlone
  <2>4. \A i \in Handlers : step'[i] # "idle" => Storing(i)'
    BY <2>2, <2>3
  <2>5. Idle' => step'[h] = "idle"
    BY DEF Idle
  <2> QED
    BY <1>1, <1>2, <2>2, <2>3, <2>4, <2>5 DEF FailsafeInv
<1> QED
  BY <1>3, <1>4

\* and so by all steps.
LEMMA StepFailsafe == TypeInv /\ StartInv /\ FailsafeInv /\ [Next]_vars => FailsafeInv'
<1> SUFFICES ASSUME TypeInv, StartInv, FailsafeInv, [Next]_vars PROVE FailsafeInv'
  OBVIOUS
<1>1. CASE Crash
  BY <1>1, EndedKeepsFailsafe DEF Crash
<1>2. CASE User
  <2>1. phase' = "down"
    BY <1>2 DEF User, EnterRemoteSki, EnterPassword, RemoveIdentity, DeleteConfig,
                Editable
  <2> QED
    BY <2>1 DEF FailsafeInv
<1>3. CASE UNCHANGED vars
  BY <1>3 DEF vars, handlerVars, historyVars, FailsafeInv, Storing, Assigned, Written,
              StoredFailsafe, StoredDuration, ServerAfterRun, GetFailsafeLPP,
              Decryptable, Surviving, Idle
<1> QED
  BY <1>1, <1>2, <1>3, StartUpKeepsFailsafe, RemoteWriteKeepsFailsafe,
     StoreFailsafeKeepsFailsafe DEF Next

\* With the events handled one at a time, the next start gives the server the limit
\* it holds now in whole watts and its duration in whole seconds, or two hours for
\* one out of range, whatever starts, crashes and edits came before.
THEOREM FailsafeCorrect == Spec => []FailsafeStored
<1>1. FailsafeInv => FailsafeStored
  <2> SUFFICES ASSUME FailsafeInv, phase = "running", Idle, ~overlapped
               PROVE  /\ file.state = "written"
                      /\ ServerAfterRun(file.content) = Surviving(server)
    BY DEF FailsafeStored
  <2>1. file = Written(config) /\ StoredFailsafe(config) /\ StoredDuration(config)
    BY DEF FailsafeInv
  <2>2. file.state = "written" /\ file.content = config
    BY <2>1 DEF Written
  <2> QED
    BY <2>1, <2>2 DEF StoredFailsafe, StoredDuration, ServerAfterRun, Surviving
<1> QED
  BY <1>1, InitTypes, StepTypes, InitStart, StepStart, InitFailsafe, StepFailsafe,
     PTL DEF Spec
=============================================================================

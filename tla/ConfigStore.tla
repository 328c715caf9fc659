----------------------------- MODULE ConfigStore -----------------------------
(***************************************************************************)
(* The configuration of the HEMS application, devices/hems/main.go: what   *)
(* init, mqttConnect and run do with config.json at each start, and what   *)
(* OnLPPEvent does with it while the process runs.                         *)
(*                                                                         *)
(* The file is always rewritten as a whole, in two steps: os.Create        *)
(* truncates it, Encode fills it.  The process may end between any two     *)
(* steps; then the global config is lost and the file stays as it is.      *)
(* Values are encrypted under the serial number; decrypting them under     *)
(* another one fails.                                                      *)
(*                                                                         *)
(* The server holds limits and durations with fractions; config.json has   *)
(* whole watts and whole seconds.                                          *)
(***************************************************************************)
EXTENDS Integers, FiniteSets

CONSTANTS
    Handlers,       \* identities of event goroutines, reused once they ended
    Limits,         \* failsafe limits the remote device writes
    Durations,      \* minimum failsafe durations it writes
    Passwords,      \* MQTT passwords of fewer than 25 characters
    LongPasswords,  \* and longer ones
    MaxSN           \* bound: serial numbers generated

\* The empty password, by a name: the length is all that is told of a password.
NoPassword == "none"

\* Watts or seconds: the whole ones, towards zero, and whether there is a rest.
Quantities == [whole : Int, rest : BOOLEAN]
WholeNumber(n) == [whole |-> n, rest |-> FALSE]

ASSUME ConfigAssumption ==
    /\ Limits \subseteq Quantities
    /\ Durations \subseteq Quantities
    /\ NoPassword \in Passwords
    /\ Passwords \cap LongPasswords = {}
    /\ "ciphertext" \notin Passwords \cup LongPasswords
    /\ MaxSN \in Nat \ {0}

VARIABLES
    file,     \* config.json: its state, and the configuration when written
    config,   \* the global config of the running process
    phase,    \* what the process is doing
    server,   \* failsafe limit and duration held by the DeviceConfiguration server
    step,     \* where each event goroutine stands
    half,     \* which of the two failsafe values it is storing
    read,     \* the value it read from the server
    encoded,  \* the configuration it is about to write
    serials   \* serial numbers generated so far, at most MaxSN

(* History variables.                                                      *)
VARIABLES
    overlapped,  \* two event goroutines ran at once since the start
    password,    \* the password the user last set
    rekeyed      \* the user removed the identity it is encrypted under

handlerVars == <<step, half, read, encoded>>
historyVars == <<overlapped, password, rekeyed>>
vars == <<file, config, phase, server, handlerVars, serials, historyVars>>

\* A stored value: the serial number it is encrypted under, 0 for plain text.
Cipher(V) == [key : 0..MaxSN, text : V]
Plain(v) == [key |-> 0, text |-> v]
NoText == -1

\* What run() falls back to when a stored value cannot be decrypted.
DefaultLimit == 0
DefaultDuration == 86400
\* The durations SetFailsafeDurationMinimum accepts, and that of LPC.
TwoHours == 7200
OneDay == 86400

\* int(x), of a limit and of the seconds of a duration.
Truncate(x) == x.whole
FailsafeTexts == {Truncate(l) : l \in Limits} \cup {DefaultLimit}
DurationTexts == {Truncate(d) : d \in Durations} \cup {TwoHours, OneDay}

Configs == [identity : BOOLEAN,    \* certificate and key are there
            remoteSki : BOOLEAN,   \* the user entered the remote SKI
            sn : 0..MaxSN,         \* 0 for an empty serial number
            failsafe : Cipher(FailsafeTexts \cup {NoText}),
            duration : Cipher(DurationTexts \cup {NoText}),
            mqtt : Cipher(Passwords \cup LongPasswords \cup {"ciphertext"})]

NewConfig(sn) ==
    [identity |-> FALSE, remoteSki |-> FALSE, sn |-> sn,
     failsafe |-> Plain(NoText), duration |-> Plain(NoText), mqtt |-> Plain(NoPassword)]
NoConfig == NewConfig(0)

Absent == [state |-> "absent", content |-> NoConfig]
Truncated == [state |-> "truncated", content |-> NoConfig]
Written(c) == [state |-> "written", content |-> c]

\* Before run() the server holds nothing that counts.
NoServer == [failsafe |-> WholeNumber(DefaultLimit),
             duration |-> WholeNumber(DefaultDuration)]

Phases == {"down", "generating", "identifying", "connecting", "securing",
           "starting", "running"}
Steps == {"idle", "read", "assign", "create", "marshal", "write"}

Idle == \A h \in Handlers : step[h] = "idle"

Init ==
    /\ file = Absent
    /\ config = NoConfig
    /\ phase = "down"
    /\ server = NoServer
    /\ step = [h \in Handlers |-> "idle"]
    /\ half = [h \in Handlers |-> "failsafe"]
    /\ read = [h \in Handlers |-> WholeNumber(0)]
    /\ encoded = [h \in Handlers |-> NoConfig]
    /\ serials = 0
    /\ overlapped = FALSE
    /\ password = NoPassword
    /\ rekeyed = FALSE

-----------------------------------------------------------------------------
(* Encryption.                                                             *)

\* encryptPassword under the serial number of config c.
Encrypt(c, v) == [key |-> c.sn, text |-> v]

\* The characters a stored password consists of.
Ciphertext == "ciphertext"
Characters(stored) == IF stored.key = 0 THEN stored.text ELSE Ciphertext

\* Mutant: a failed decryption goes unnoticed.
DecryptableAlways(c, stored) == TRUE
\* decryptPassword succeeds: the value was encrypted under this serial number.
Decryptable(c, stored) == stored.key # 0 /\ stored.key = c.sn

\* Mutant: a stored password is encrypted whatever its length.
UnsecuredAlways(c) == TRUE
\* len(Password) < 25: ciphertext is longer, and so are some passwords.
Unsecured(c) == c.mqtt.key = 0 /\ c.mqtt.text \in Passwords

\* What mqttConnect gives the broker: nothing, if the decryption fails.
BrokerPassword(c) == IF Decryptable(c, c.mqtt) THEN c.mqtt.text ELSE NoPassword

-----------------------------------------------------------------------------
(* A start of the process: init, mqttConnect, run.                         *)

\* The process ends, for whatever reason.
Ended ==
    /\ phase' = "down"
    /\ config' = NoConfig
    /\ server' = NoServer
    /\ step' = [h \in Handlers |-> "idle"]
    /\ half' = [h \in Handlers |-> "failsafe"]
    /\ read' = [h \in Handlers |-> WholeNumber(0)]
    /\ encoded' = [h \in Handlers |-> NoConfig]
    /\ overlapped' = FALSE

\* No configuration: one is generated.
GenerateConfig ==
    /\ phase = "down"
    /\ file = Absent
    /\ serials < MaxSN
    /\ serials' = serials + 1
    /\ config' = NewConfig(serials + 1)
    /\ file' = Truncated
    /\ phase' = "generating"
    /\ UNCHANGED <<server, handlerVars, historyVars>>

\* It is written, and the process panics on the file it could not open.
ConfigGenerated ==
    /\ phase = "generating"
    /\ file' = Written(config)
    /\ Ended
    /\ UNCHANGED <<serials, password, rekeyed>>

Complete(c) == c.identity /\ c.sn # 0

\* The configuration is read.  (A truncated one ends the process at once.)
ReadConfig ==
    /\ phase = "down"
    /\ file.state = "written"
    /\ Complete(file.content)
    /\ config' = file.content
    /\ phase' = "connecting"
    /\ UNCHANGED <<file, server, handlerVars, serials, historyVars>>

\* Without certificate, key or serial number all three are made anew.
CreateIdentity ==
    /\ phase = "down"
    /\ file.state = "written"
    /\ ~Complete(file.content)
    /\ serials < MaxSN
    /\ serials' = serials + 1
    /\ config' = [file.content EXCEPT !.identity = TRUE, !.sn = serials + 1]
    /\ file' = Truncated
    /\ phase' = "identifying"
    /\ UNCHANGED <<server, handlerVars, historyVars>>

IdentityCreated ==
    /\ phase = "identifying"
    /\ file' = Written(config)
    /\ phase' = "connecting"
    /\ UNCHANGED <<config, server, handlerVars, serials, historyVars>>

\* mqttConnect: a short password is encrypted and the configuration rewritten.
MqttConnect ==
    /\ phase = "connecting"
    /\ IF Unsecured(config)
         THEN /\ config' = [config EXCEPT !.mqtt = Encrypt(config, Characters(@))]
              /\ file' = Truncated
              /\ phase' = "securing"
         ELSE /\ phase' = "starting"
              /\ UNCHANGED <<config, file>>
    /\ UNCHANGED <<server, handlerVars, serials, historyVars>>

PasswordSecured ==
    /\ phase = "securing"
    /\ file' = Written(config)
    /\ phase' = "starting"
    /\ UNCHANGED <<config, server, handlerVars, serials, historyVars>>

\* getFailsafeLPP: what is stored, or the defaults.  Its branch for the first run
\* needs an empty key file, with which run() has ended before.
GetFailsafeLPP(c) ==
    [failsafe |-> IF Decryptable(c, c.failsafe) THEN c.failsafe.text
                  ELSE DefaultLimit,
     duration |-> IF Decryptable(c, c.duration) THEN c.duration.text
                  ELSE DefaultDuration]

\* SetFailsafeDurationMinimum rejects a duration out of range, and the two hours
\* set by LPC, for the same key, stay.
Accepted(d) == IF d \in TwoHours..OneDay THEN d ELSE TwoHours

\* What the server holds after run().
ServerAfterRun(c) ==
    [failsafe |-> WholeNumber(GetFailsafeLPP(c).failsafe),
     duration |-> WholeNumber(Accepted(GetFailsafeLPP(c).duration))]

\* run: without the remote SKI the process ends.
Run ==
    /\ phase = "starting"
    /\ \/ ~config.remoteSki /\ Ended
       \/ /\ config.remoteSki
          /\ server' = ServerAfterRun(config)
          /\ phase' = "running"
          /\ UNCHANGED <<config, handlerVars, overlapped>>
    /\ UNCHANGED <<file, serials, password, rekeyed>>

\* The process ends at any point, by a signal, a crash or a loss of power.
Crash ==
    /\ phase # "down"
    /\ Ended
    /\ UNCHANGED <<file, serials, password, rekeyed>>

-----------------------------------------------------------------------------
(* The remote device writes the failsafe data.                             *)

\* The server takes the values over, then the event starts a goroutine.  Any value
\* in the write raises both events, that of the limit first.
RemoteWrite(l, d) ==
    /\ phase = "running"
    /\ server' = [failsafe |-> l, duration |-> d]
    /\ server' # server
    /\ \E h \in Handlers :
         /\ step[h] = "idle"
         /\ step' = [step EXCEPT ![h] = "read"]
         /\ half' = [half EXCEPT ![h] = "failsafe"]
    /\ overlapped' = (overlapped \/ ~Idle)
    /\ UNCHANGED <<file, config, phase, read, encoded, serials, password, rekeyed>>

\* FailsafeProductionActivePowerLimit or FailsafeDurationMinimum.
ReadServer(h) ==
    /\ step[h] = "read"
    /\ read' = [read EXCEPT ![h] = server[half[h]]]
    /\ step' = [step EXCEPT ![h] = "assign"]
    /\ UNCHANGED <<file, config, phase, server, half, encoded, serials, historyVars>>

\* config.Hems.Failsafe or .FailsafeDuration = encryptPassword(...), which takes
\* its time to derive the key.  What is encrypted is int(...) of the value read.
AssignConfig(h) ==
    /\ step[h] = "assign"
    /\ config' = [config EXCEPT ![half[h]] = Encrypt(config, Truncate(read[h]))]
    /\ step' = [step EXCEPT ![h] = "create"]
    /\ UNCHANGED <<file, phase, server, half, read, encoded, serials, historyVars>>

\* os.Create
CreateFile(h) ==
    /\ step[h] = "create"
    /\ file' = Truncated
    /\ step' = [step EXCEPT ![h] = "marshal"]
    /\ UNCHANGED <<config, phase, server, half, read, encoded, serials, historyVars>>

\* Encode reads the global config first and writes it in one go.
Marshal(h) ==
    /\ step[h] = "marshal"
    /\ encoded' = [encoded EXCEPT ![h] = config]
    /\ step' = [step EXCEPT ![h] = "write"]
    /\ UNCHANGED <<file, config, phase, server, half, read, serials, historyVars>>

\* Mutant: the duration is not stored.
FollowingNone(h) == "idle"
\* The step after a write: the limit's is followed by the duration's.
Following(h) == IF half[h] = "failsafe" THEN "read" ELSE "idle"

\* The file starts with what was written last; what an earlier, longer text left
\* after it is not read.
WriteFile(h) ==
    /\ step[h] = "write"
    /\ file' = Written(encoded[h])
    /\ step' = [step EXCEPT ![h] = Following(h)]
    /\ half' = [half EXCEPT ![h] = "duration"]
    /\ read' = [read EXCEPT ![h] = WholeNumber(0)]
    /\ encoded' = [encoded EXCEPT ![h] = NoConfig]
    /\ UNCHANGED <<config, phase, server, serials, historyVars>>

-----------------------------------------------------------------------------
(* The user edits config.json while the process is down.                   *)

Editable == phase = "down" /\ file.state = "written"

EnterRemoteSki ==
    /\ Editable
    /\ ~file.content.remoteSki
    /\ file' = [file EXCEPT !.content.remoteSki = TRUE]
    /\ UNCHANGED <<config, phase, server, handlerVars, serials, historyVars>>

EnterPassword(p) ==
    /\ Editable
    /\ file.content.mqtt # Plain(p)
    /\ file' = [file EXCEPT !.content.mqtt = Plain(p)]
    /\ password' = p
    /\ rekeyed' = FALSE
    /\ UNCHANGED <<config, phase, server, handlerVars, serials, overlapped>>

\* The certificate is removed, to get a new one.  The password, if encrypted
\* already, cannot be decrypted under the new serial number.
RemoveIdentity ==
    /\ Editable
    /\ file.content.identity
    /\ file' = [file EXCEPT !.content.identity = FALSE]
    /\ rekeyed' = (rekeyed \/ file.content.mqtt.key # 0)
    /\ UNCHANGED <<config, phase, server, handlerVars, serials, overlapped, password>>

\* The file is deleted, all that helps once it is truncated.  No ciphertext is
\* left, so the serial numbers may be used again.
DeleteConfig ==
    /\ phase = "down"
    /\ file # Absent
    /\ file' = Absent
    /\ password' = NoPassword
    /\ rekeyed' = FALSE
    /\ serials' = 0
    /\ UNCHANGED <<config, phase, server, handlerVars, overlapped>>

-----------------------------------------------------------------------------
StartUp ==
    \/ GenerateConfig
    \/ ConfigGenerated
    \/ ReadConfig
    \/ CreateIdentity
    \/ IdentityCreated
    \/ MqttConnect
    \/ PasswordSecured
    \/ Run

StoreFailsafe(h) ==
    \/ ReadServer(h)
    \/ AssignConfig(h)
    \/ CreateFile(h)
    \/ Marshal(h)
    \/ WriteFile(h)

User ==
    \/ EnterRemoteSki
    \/ \E p \in Passwords \cup LongPasswords : EnterPassword(p)
    \/ RemoveIdentity
    \/ DeleteConfig

Next ==
    \/ StartUp
    \/ Crash
    \/ \E l \in Limits, d \in Durations : RemoteWrite(l, d)
    \/ \E h \in Handlers : StoreFailsafe(h)
    \/ User

Spec == Init /\ [][Next]_vars

-----------------------------------------------------------------------------
(* Properties.                                                             *)

\* Every variable has a value the code can give it.
TypeOK ==
    /\ file \in [state : {"absent", "truncated", "written"}, content : Configs]
    /\ config \in Configs
    /\ phase \in Phases
    /\ server.failsafe \in Limits \cup {WholeNumber(n) : n \in FailsafeTexts}
    /\ server.duration \in Durations \cup {WholeNumber(n) : n \in DurationTexts}
    /\ step \in [Handlers -> Steps]
    /\ half \in [Handlers -> {"failsafe", "duration"}]
    /\ read \in [Handlers -> Quantities]
    /\ encoded \in [Handlers -> Configs]
    /\ serials \in 0..MaxSN
    /\ overlapped \in BOOLEAN
    /\ password \in Passwords \cup LongPasswords
    /\ rekeyed \in BOOLEAN

\* What of the failsafe data the server holds can survive the process: the limit
\* in whole watts, and the duration in whole seconds or, as nothing stops the
\* remote device from writing one outside 2 h to 24 h, two hours in its place.
Surviving(held) ==
    [failsafe |-> WholeNumber(Truncate(held.failsafe)),
     duration |-> WholeNumber(Accepted(Truncate(held.duration)))]

\* That much does survive: with the events of the remote device's writes handled
\* one at a time, the next start with config.json as it is gives the server what
\* it holds now, neither a default nor an older value, however many starts,
\* crashes and edits came before.  (A new identity does bring the defaults back,
\* and the server holds them from then on.)
FailsafeStored ==
    phase = "running" /\ Idle /\ ~overlapped =>
        /\ file.state = "written"
        /\ ServerAfterRun(file.content) = Surviving(server)

\* The broker is given the password the user entered last, and never ciphertext
\* or an older password, at every start: it is encrypted once, however often the
\* file is rewritten.  Two passwords are replaced by an empty one: one of 25
\* characters or more, which is taken for ciphertext, and one encrypted under an
\* identity the user removed since.
PasswordUsable ==
    phase = "running" =>
        BrokerPassword(config) =
            IF password \in Passwords /\ ~rekeyed THEN password ELSE NoPassword

=============================================================================

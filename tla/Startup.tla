------------------------------ MODULE Startup ------------------------------
(***************************************************************************)
(* From reset to the dispatch loop: main (src/main.cpp), AppTask::Init and *)
(* AppTask::StartApp (src/app_task.cpp) on the main thread, and the        *)
(* initialisation of the Matter server, with the identity callbacks of     *)
(* src/tinyenv_device_identity.cpp, on the Matter thread.                  *)
(*                                                                         *)
(* The main thread writes attributes before the server starts, between its *)
(* start and the timers, and with its first sample.  It also parks: in a   *)
(* wipe build on purpose, otherwise when a step of start-up fails.         *)
(***************************************************************************)
EXTENDS Integers

CONSTANTS
  Null,        \* a null attribute
  Readings,    \* what the SHT4x can measure, in centidegrees
  BufferSizes, \* of the buffers clients of the identity provider bring
  MaxCycles    \* bound: power cycles

ASSUME ReadingsAssumption == Readings \subseteq -4000 .. 12500

ASSUME StartupAssumption ==
  /\ Null \notin Int
  /\ BufferSizes \subseteq Nat
  /\ MaxCycles \in Nat

Builds == [wipe : BOOLEAN, identity : BOOLEAN, ui : BOOLEAN, diag : BOOLEAN]

MainSteps == {"main", "openPartition", "erase", "parked",
              "prepare", "preparing", "board", "identify", "sht4x", "watchdog",
              "hint", "instruction", "startServer", "starting",
              "getMin", "setMin", "setMax", "timers", "first", "loop", "exited"}
ServerSteps == {"down", "preInit", "sdk", "store", "postInit", "ready", "failed"}

VARIABLES
  build,     \* the Kconfig options of this image
  initIn,    \* the SDK function that waits for the server: PrepareServer or StartServer
  main,      \* what the main thread does next
  server,    \* what the Matter thread does next to initialise the server
  provider,  \* the DeviceInstanceInfoProvider: "none", "sdk" or "runtime"
  attr,      \* the attributes of the data model the start-up writes
  shtReady,  \* mShtReady
  armed,     \* mWdtChannel >= 0
  settings,  \* the storage partition: "kept", "torn" or "erased"
  logged,    \* the last result WipeSettingsAndPark logged
  \* History and bounds:
  answer,    \* the last answer of the provider to a client
  failedIn,  \* the step of start-up that failed
  refused,   \* wdt_install_timeout or wdt_setup failed
  cycles     \* power cycles so far

image == <<build, initIn, cycles>>
flash == <<settings, logged>>
identity == <<provider, answer>>
hardware == <<shtReady, armed, refused>>
vars == <<image, flash, identity, hardware, main, server, attr, failedIn>>

\* GENERATED_ATTRIBUTES: AppDefinedButton and its instruction, -20 and 20 degrees.
Defaults == [hint |-> "button", instruction |-> "button",
             min |-> -2000, max |-> 2000, measured |-> Null]

NoAnswer == [status |-> "none", from |-> "none", length |-> 0, whole |-> 0]

Init ==
  /\ build \in Builds
  /\ initIn \in {"PrepareServer", "StartServer"}
  /\ main = "main"
  /\ server = "down"
  /\ provider = "none"
  /\ attr = Defaults
  /\ shtReady = FALSE
  /\ armed = FALSE
  /\ settings = "kept"
  /\ logged = "nothing"
  /\ answer = NoAnswer
  /\ failedIn = "none"
  /\ refused = FALSE
  /\ cycles = 0

Goto(step) == main' = step

Fail == main' = "exited" /\ failedIn' = main

\* The attribute storage exists from the "store" step of the server on: a Set
\* before finds no endpoint, and nobody looks at the status it returns.
StoreUp == server \in {"postInit", "ready"}
Set(name, value) == attr' = IF StoreUp THEN [attr EXCEPT ![name] = value] ELSE attr

-----------------------------------------------------------------------------
(* main and the wipe build.                                                *)

Main ==
  /\ main = "main"
  /\ Goto(IF build.wipe THEN "openPartition" ELSE "prepare")
  /\ UNCHANGED <<image, flash, identity, hardware, server, attr, failedIn>>

OpenPartition ==
  /\ main = "openPartition"
  /\ \/ Goto("erase") /\ settings' = "torn" /\ UNCHANGED logged
     \/ Goto("parked") /\ logged' = "openFailed" /\ UNCHANGED settings
  /\ UNCHANGED <<image, identity, hardware, server, attr, failedIn>>

\* Mutant: logs the result of the open.
ErasePartitionBlindly ==
  /\ main = "erase"
  /\ settings' \in {"erased", "torn"}
  /\ logged' = "erased"
  /\ Goto("parked")
  /\ UNCHANGED <<image, identity, hardware, server, attr, failedIn>>

ErasePartition ==
  /\ main = "erase"
  /\ \/ settings' = "erased" /\ logged' = "erased"
     \/ settings' = "torn" /\ logged' = "eraseFailed"
  /\ Goto("parked")
  /\ UNCHANGED <<image, identity, hardware, server, attr, failedIn>>

-----------------------------------------------------------------------------
(* The identity: TINYENV-NRF- and sixteen hex digits, sixteen bytes of a   *)
(* digest.                                                                 *)

SerialLength == 28
UniqueIdLength == 16
MaxSerialNumberLength == 32

Answer(status, stored, whole) ==
  [status |-> status, from |-> "runtime", length |-> stored, whole |-> whole]

\* Mutant: forgets the terminator.
SerialNumberNoTerminator(bufSize) ==
  Answer(IF SerialLength <= bufSize THEN "ok" ELSE "tooSmall",
         IF SerialLength < bufSize THEN SerialLength
         ELSE IF bufSize = 0 THEN 0 ELSE bufSize - 1,
         SerialLength)

\* snprintf stores at most bufSize - 1 characters and returns what it would have.
TinyEnvGetRuntimeSerialNumber(bufSize) ==
  Answer(IF SerialLength < bufSize THEN "ok" ELSE "tooSmall",
         IF SerialLength < bufSize THEN SerialLength
         ELSE IF bufSize = 0 THEN 0 ELSE bufSize - 1,
         SerialLength)

\* Hash_SHA256 may fail: hashed says that it did not.
GetRuntimeRotatingIdUniqueId(bufSize, hashed) ==
  IF bufSize >= UniqueIdLength /\ hashed THEN Answer("ok", UniqueIdLength, UniqueIdLength)
  ELSE Answer(IF bufSize < UniqueIdLength THEN "tooSmall" ELSE "failed", 0, UniqueIdLength)

\* The status of TinyEnvConfigureRuntimeMatterIdentity.
IdentityConfigured ==
  TinyEnvGetRuntimeSerialNumber(MaxSerialNumberLength + 1).status = "ok"

-----------------------------------------------------------------------------
(* The Matter thread initialises the server: the callback before it, the   *)
(* provider of the SDK, the attribute storage, the callback after it.      *)

PreServerInit ==
  /\ server = "preInit"
  /\ IF ~build.identity THEN server' = "sdk" /\ UNCHANGED provider
     ELSE IF IdentityConfigured THEN server' = "sdk" /\ provider' = "runtime"
     ELSE server' = "failed" /\ UNCHANGED provider
  /\ UNCHANGED <<image, flash, hardware, main, attr, answer, failedIn>>

\* The SDK may install its own provider, whatever the application did before.
SdkProvider ==
  /\ server = "sdk"
  /\ \/ server' = "store" /\ provider' \in {provider, "sdk"}
     \/ server' = "failed" /\ UNCHANGED provider
  /\ UNCHANGED <<image, flash, hardware, main, attr, answer, failedIn>>

LoadAttributes ==
  /\ server = "store"
  /\ \/ server' = "postInit" /\ attr' = Defaults
     \/ server' = "failed" /\ UNCHANGED attr
  /\ UNCHANGED <<image, flash, identity, hardware, main, failedIn>>

\* Mutant: InitData without mPostServerInitClbk.
PostServerInitNothing ==
  /\ server = "postInit"
  /\ server' = "ready"
  /\ UNCHANGED <<image, flash, identity, hardware, main, attr, failedIn>>

PostServerInit ==
  /\ server = "postInit"
  /\ server' = "ready"
  /\ provider' = IF build.identity THEN "runtime" ELSE provider
  /\ UNCHANGED <<image, flash, hardware, main, attr, answer, failedIn>>

ServerInit == PreServerInit \/ SdkProvider \/ LoadAttributes \/ PostServerInit

-----------------------------------------------------------------------------
(* AppTask::Init.                                                          *)

\* An SDK call that starts the initialisation where initIn says so, and waits.
RunsServer(step, call, waiting, next) ==
  \/ /\ main = step
     /\ \/ Fail /\ UNCHANGED server
        \/ initIn = call /\ Goto(waiting) /\ server' = "preInit" /\ UNCHANGED failedIn
        \/ initIn # call /\ Goto(next) /\ UNCHANGED <<server, failedIn>>
  \/ /\ main = waiting
     /\ \/ server = "ready" /\ Goto(next) /\ UNCHANGED failedIn
        \/ server = "failed" /\ Fail
     /\ UNCHANGED server

PrepareServer ==
  /\ RunsServer("prepare", "PrepareServer", "preparing", "board")
  /\ UNCHANGED <<image, flash, identity, hardware, attr>>

\* Board::Init and RegisterEventHandler.
InitBoard ==
  /\ main = "board"
  /\ \/ Goto("identify") /\ UNCHANGED failedIn
     \/ build.ui /\ Fail
  /\ UNCHANGED <<image, flash, identity, hardware, server, attr>>

InitIdentify ==
  /\ main = "identify"
  /\ \/ Goto("sht4x") /\ UNCHANGED failedIn
     \/ Fail
  /\ UNCHANGED <<image, flash, identity, hardware, server, attr>>

\* Also the probe and the wake button, which change nothing else.
FindSht4x ==
  /\ main = "sht4x"
  /\ shtReady' \in BOOLEAN
  /\ Goto("watchdog")
  /\ UNCHANGED <<image, flash, identity, server, attr, armed, refused, failedIn>>

\* Mutant: the diagnostic build forgets it.
SkipWatchdog ==
  /\ main = "watchdog"
  /\ Goto("hint")
  /\ UNCHANGED <<image, flash, identity, hardware, server, attr, failedIn>>

DiagInitWatchdog ==
  /\ main = "watchdog"
  /\ \/ ~build.diag /\ UNCHANGED <<armed, refused>>
     \/ build.diag /\ refused' \in BOOLEAN /\ armed' = ~refused'
  /\ Goto("hint")
  /\ UNCHANGED <<image, flash, identity, server, attr, shtReady, failedIn>>

SetHint ==
  /\ main = "hint"
  /\ Set("hint", "powerCycle")
  /\ Goto("instruction")
  /\ UNCHANGED <<image, flash, identity, hardware, server, failedIn>>

\* Mutant: the hint without its instruction.
KeepInstruction ==
  /\ main = "instruction"
  /\ Goto("startServer")
  /\ UNCHANGED <<image, flash, identity, hardware, server, attr, failedIn>>

SetInstruction ==
  /\ main = "instruction"
  /\ Set("instruction", "powerCycle")
  /\ Goto("startServer")
  /\ UNCHANGED <<image, flash, identity, hardware, server, failedIn>>

StartServer ==
  /\ RunsServer("startServer", "StartServer", "starting", "getMin")
  /\ UNCHANGED <<image, flash, identity, hardware, attr>>

AppInit ==
  \/ PrepareServer \/ InitBoard \/ InitIdentify \/ FindSht4x \/ DiagInitWatchdog
  \/ SetHint \/ SetInstruction \/ StartServer

-----------------------------------------------------------------------------
(* AppTask::StartApp after Init.                                           *)

GetMin ==
  /\ main = "getMin"
  /\ IF StoreUp /\ attr.min # Null THEN Goto("setMin") /\ UNCHANGED failedIn ELSE Fail
  /\ UNCHANGED <<image, flash, identity, hardware, server, attr>>

SetMin ==
  /\ main = "setMin"
  /\ Set("min", -4000)
  /\ Goto("setMax")
  /\ UNCHANGED <<image, flash, identity, hardware, server, failedIn>>

\* Mutant: only the member is set, not the attribute.
SetMaxMemberOnly ==
  /\ main = "setMax"
  /\ Goto("timers")
  /\ UNCHANGED <<image, flash, identity, hardware, server, attr, failedIn>>

SetMax ==
  /\ main = "setMax"
  /\ Set("max", 12500)
  /\ Goto("timers")
  /\ UNCHANGED <<image, flash, identity, hardware, server, failedIn>>

StartTimers ==
  /\ main = "timers"
  /\ Goto("first")
  /\ UNCHANGED <<image, flash, identity, hardware, server, attr, failedIn>>

\* UpdateSensorReadings(true) and what follows it, then the loop.
FirstUpdate ==
  /\ main = "first"
  /\ \/ shtReady /\ \E t \in Readings : Set("measured", t)
     \/ UNCHANGED attr
  /\ Goto("loop")
  /\ UNCHANGED <<image, flash, identity, hardware, server, failedIn>>

\* A work item of the Matter thread once the timers run.
SensorWork ==
  /\ main \in {"first", "loop"}
  /\ shtReady
  /\ \E t \in Readings : Set("measured", t)
  /\ UNCHANGED <<image, flash, identity, hardware, main, server, failedIn>>

StartApp == AppInit \/ GetMin \/ SetMin \/ SetMax \/ StartTimers \/ FirstUpdate

-----------------------------------------------------------------------------
(* The environment.                                                        *)

\* A client asks the provider of a running server for an identity.
Identify(bufSize) ==
  /\ server = "ready"
  /\ IF provider = "runtime"
     THEN answer' \in {TinyEnvGetRuntimeSerialNumber(bufSize)}
                       \cup {GetRuntimeRotatingIdUniqueId(bufSize, h) : h \in BOOLEAN}
     ELSE answer' = [NoAnswer EXCEPT !.status = "ok", !.from = provider]
  /\ UNCHANGED <<image, flash, hardware, main, server, provider, attr, failedIn>>

\* RAM starts over; the image and the partition stay.
Reboot ==
  /\ main' = "main"
  /\ server' = "down"
  /\ provider' = "none"
  /\ attr' = Defaults
  /\ shtReady' = FALSE
  /\ armed' = FALSE
  /\ logged' = "nothing"
  /\ answer' = NoAnswer
  /\ failedIn' = "none"
  /\ refused' = FALSE
  /\ UNCHANGED <<build, initIn, settings>>

\* Nobody feeds the watchdog when main has returned before the timers.
WatchdogBites == armed /\ main = "exited" /\ Reboot /\ UNCHANGED cycles

PowerCycle == cycles < MaxCycles /\ cycles' = cycles + 1 /\ Reboot

MainThread == Main \/ OpenPartition \/ ErasePartition \/ StartApp

Next ==
  \/ MainThread
  \/ ServerInit
  \/ SensorWork
  \/ \E bufSize \in BufferSizes : Identify(bufSize)
  \/ WatchdogBites
  \/ PowerCycle

Spec == Init /\ [][Next]_vars

\* Threads that can run do, and an unfed watchdog expires.
FairSpec ==
  /\ Spec
  /\ WF_vars(MainThread)
  /\ WF_vars(ServerInit)
  /\ WF_vars(WatchdogBites)

-----------------------------------------------------------------------------
(* Properties.                                                             *)

Attributes == [hint : {"button", "powerCycle"}, instruction : {"button", "powerCycle"},
               min : Int, max : Int, measured : Int \cup {Null}]
Answers == [status : {"none", "ok", "tooSmall", "failed"}, from : {"none", "sdk", "runtime"},
            length : Nat, whole : Nat]

TypeOK ==
  /\ build \in Builds
  /\ initIn \in {"PrepareServer", "StartServer"}
  /\ main \in MainSteps
  /\ server \in ServerSteps
  /\ provider \in {"none", "sdk", "runtime"}
  /\ attr \in Attributes
  /\ shtReady \in BOOLEAN
  /\ armed \in BOOLEAN
  /\ settings \in {"kept", "torn", "erased"}
  /\ logged \in {"nothing", "openFailed", "erased", "eraseFailed"}
  /\ answer \in Answers
  /\ failedIn \in MainSteps \cup {"none"}
  /\ refused \in BOOLEAN
  /\ cycles \in Nat

(* Whatever a client reads at whatever time, the measured value it sees is *)
(* null or within the range declared beside it, although the range is set  *)
(* after the server started and with a Set for each end: the timers and    *)
(* the first sample come later.                                            *)
MeasuredInDeclaredRange ==
  attr.measured # Null => attr.min <= attr.measured /\ attr.measured <= attr.max

(* A node that serves answers with the identity of the chip, although the  *)
(* SDK may install its own provider after the callback that configured     *)
(* ours; and an answer that reports success is never cut short.            *)
RuntimeIdentityServed ==
  answer.status = "ok" /\ build.identity
    => answer.from = "runtime" /\ answer.length = answer.whole

(* The hint that tells a user how to wake the device and the instruction   *)
(* that goes with it are of one kind in a running server, whether the SDK  *)
(* creates the attribute storage before AppTask::Init sets them or after.  *)
WakeHintExplained == server = "ready" /\ main \notin {"instruction"} =>
  attr.hint = attr.instruction

(* TINYENV_WIPE_SETTINGS_ON_BOOT: erases, logs the result, and parks       *)
(* instead of starting Matter.  The result is that of the erase, even when *)
(* an earlier boot was cut during its own.                                 *)
WipeBuildParks ==
  /\ build.wipe => server = "down" /\ provider = "none" /\ main # "exited"
  /\ main = "parked" => build.wipe /\ (logged = "erased" => settings = "erased")
  /\ ~build.wipe => settings = "kept"

(* A diagnostic build does not stay dead when start-up fails after the     *)
(* watchdog is armed: StartServer, or the check of MinMeasuredValue.       *)
LateFailureRetried ==
  (main = "exited" /\ build.diag /\ ~refused /\ failedIn \in {"startServer", "starting", "getMin"})
    ~> (main = "main")

=============================================================================

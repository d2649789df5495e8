--------------------------- MODULE StartupProofs ---------------------------
(* What holds of Startup for any readings within the SHT4x's range, any   *)
(* buffers of clients and any number of power cycles: its declarations; no *)
(* measured value outside of the range declared beside it; the identity of *)
(* the chip and no other; a wake hint and its instruction of one kind; and *)
(* a wipe build that does nothing but wipe.                                *)
EXTENDS Startup, TLAPS

Running == {"first", "loop"}
AfterServer == {"getMin", "setMin", "setMax", "timers"} \cup Running

\* The main thread waits while the server initialises, so that no step of the
\* server undoes a Set of StartApp: LoadAttributes comes before all of them.
ServerWaitedFor ==
  /\ server \in {"preInit", "sdk", "store", "postInit"}
       => main \in {"preparing", "starting"}
  /\ main \in {"board", "identify", "sht4x", "watchdog", "hint", "instruction",
               "startServer"} /\ initIn = "PrepareServer" => server = "ready"
  /\ main \in AfterServer => server = "ready"

RangeBeforeValue ==
  /\ main \in {"setMax", "timers"} \cup Running => attr.min = -4000
  /\ main \in {"timers"} \cup Running => attr.max = 12500
  /\ attr.measured # Null => main \in Running /\ attr.measured \in Readings

IInv == TypeOK /\ ServerWaitedFor /\ RangeBeforeValue

-----------------------------------------------------------------------------
(* The SHT4x measures within the range StartApp declares.                  *)
LEMMA ReadingRange == \A t \in Readings : t \in Int /\ -4000 <= t /\ t <= 12500
<1> SUFFICES ASSUME NEW t \in Readings
             PROVE  t \in Int /\ -4000 <= t /\ t <= 12500
  OBVIOUS
<1>1. t \in -4000 .. 12500
  BY SMTT(30), ReadingsAssumption
<1> QED
  BY ONLY <1>1, SMT

(* The initial states, and those after a reset, satisfy the invariant.     *)
LEMMA InitIInv == Init => IInv
<1> SUFFICES ASSUME Init PROVE IInv
  OBVIOUS
<1>1. TypeOK
  <2>1. attr \in Attributes /\ answer \in Answers
    BY DEF Init, Defaults, NoAnswer, Attributes, Answers
  <2> QED
    BY <2>1 DEF Init, TypeOK, MainSteps, ServerSteps
<1>2. ServerWaitedFor /\ RangeBeforeValue
  BY DEF Init, ServerWaitedFor, RangeBeforeValue, AfterServer, Running,
         Defaults
<1> QED
  BY <1>1, <1>2 DEF IInv

(* A reboot starts in the invariant, whatever the last boot was.            *)
LEMMA RebootIInv == IInv /\ Reboot /\ cycles' \in Nat => IInv'
<1> SUFFICES ASSUME IInv, Reboot, cycles' \in Nat PROVE IInv'
  OBVIOUS
<1>1. TypeOK'
  <2>1. attr' \in Attributes /\ answer' \in Answers
    BY DEF Reboot, Defaults, NoAnswer, Attributes, Answers
  <2> QED
    BY <2>1 DEF IInv, Reboot, TypeOK, MainSteps, ServerSteps
<1>2. ServerWaitedFor' /\ RangeBeforeValue'
  BY DEF Reboot, ServerWaitedFor, RangeBeforeValue, AfterServer, Running,
         Defaults
<1> QED
  BY <1>1, <1>2 DEF IInv

-----------------------------------------------------------------------------
(* A step of main or of the wipe build preserves the invariant.            *)
LEMMA WipeStepIInv == IInv /\ (Main \/ OpenPartition \/ ErasePartition) => IInv'
<1> SUFFICES ASSUME IInv, Main \/ OpenPartition \/ ErasePartition PROVE IInv'
  OBVIOUS
<1> USE DEF image, flash, identity, hardware, Goto, Fail, Set, StoreUp
<1>1. CASE Main
  <2>1. TypeOK'
    BY <1>1 DEF IInv, Main, TypeOK, MainSteps, ServerSteps, Builds, Attributes
  <2>2. ServerWaitedFor'
    BY <1>1 DEF IInv, Main, ServerWaitedFor, AfterServer, Running
  <2>3. RangeBeforeValue'
    BY <1>1 DEF IInv, Main, ServerWaitedFor, RangeBeforeValue, AfterServer,
                Running
  <2> QED
    BY <2>1, <2>2, <2>3 DEF IInv
<1>2. CASE OpenPartition
  <2>1. TypeOK'
    BY <1>2 DEF IInv, OpenPartition, TypeOK, MainSteps, ServerSteps, Builds,
                Attributes
  <2>2. ServerWaitedFor'
    BY <1>2 DEF IInv, OpenPartition, ServerWaitedFor, AfterServer, Running
  <2>3. RangeBeforeValue'
    BY <1>2 DEF IInv, OpenPartition, ServerWaitedFor, RangeBeforeValue,
                AfterServer, Running
  <2> QED
    BY <2>1, <2>2, <2>3 DEF IInv
<1>3. CASE ErasePartition
  <2>1. TypeOK'
    BY <1>3 DEF IInv, ErasePartition, TypeOK, MainSteps, ServerSteps, Builds,
                Attributes
  <2>2. ServerWaitedFor'
    BY <1>3 DEF IInv, ErasePartition, ServerWaitedFor, AfterServer, Running
  <2>3. RangeBeforeValue'
    BY <1>3 DEF IInv, ErasePartition, ServerWaitedFor, RangeBeforeValue,
                AfterServer, Running
  <2> QED
    BY <2>1, <2>2, <2>3 DEF IInv
<1> QED
  BY <1>1, <1>2, <1>3

(* A step of the initialisation of the server preserves the invariant.     *)
LEMMA ServerStepIInv == IInv /\ ServerInit => IInv'
<1> SUFFICES ASSUME IInv, ServerInit PROVE IInv'
  OBVIOUS
<1> USE DEF image, flash, identity, hardware, Goto, Fail, Set, StoreUp
<1>1. CASE PreServerInit
  <2>1. TypeOK'
    BY <1>1 DEF IInv, PreServerInit, IdentityConfigured, TypeOK, MainSteps,
                ServerSteps, Builds, Attributes
  <2>2. ServerWaitedFor'
    BY <1>1 DEF IInv, PreServerInit, IdentityConfigured, ServerWaitedFor,
                AfterServer, Running
  <2>3. RangeBeforeValue'
    BY <1>1 DEF IInv, PreServerInit, IdentityConfigured, ServerWaitedFor,
                RangeBeforeValue, AfterServer, Running
  <2> QED
    BY <2>1, <2>2, <2>3 DEF IInv
<1>2. CASE SdkProvider
  <2>1. TypeOK'
    BY <1>2 DEF IInv, SdkProvider, TypeOK, MainSteps, ServerSteps, Builds,
                Attributes
  <2>2. ServerWaitedFor'
    BY <1>2 DEF IInv, SdkProvider, ServerWaitedFor, AfterServer, Running
  <2>3. RangeBeforeValue'
    BY <1>2 DEF IInv, SdkProvider, ServerWaitedFor, RangeBeforeValue,
                AfterServer, Running
  <2> QED
    BY <2>1, <2>2, <2>3 DEF IInv
<1>3. CASE LoadAttributes
  <2>1. TypeOK'
    BY <1>3 DEF IInv, LoadAttributes, Defaults, TypeOK, MainSteps, ServerSteps,
                Builds, Attributes
  <2>2. ServerWaitedFor'
    BY <1>3 DEF IInv, LoadAttributes, Defaults, ServerWaitedFor, AfterServer,
                Running
  <2>3. RangeBeforeValue'
    BY <1>3 DEF IInv, LoadAttributes, Defaults, ServerWaitedFor,
                RangeBeforeValue, AfterServer, Running
  <2> QED
    BY <2>1, <2>2, <2>3 DEF IInv
<1>4. CASE PostServerInit
  <2>1. TypeOK'
    BY <1>4 DEF IInv, PostServerInit, TypeOK, MainSteps, ServerSteps, Builds,
                Attributes
  <2>2. ServerWaitedFor'
    BY <1>4 DEF IInv, PostServerInit, ServerWaitedFor, AfterServer, Running
  <2>3. RangeBeforeValue'
    BY <1>4 DEF IInv, PostServerInit, ServerWaitedFor, RangeBeforeValue,
                AfterServer, Running
  <2> QED
    BY <2>1, <2>2, <2>3 DEF IInv
<1> QED
  BY <1>1, <1>2, <1>3, <1>4 DEF ServerInit

(* A step of AppTask::Init preserves the invariant.                        *)
LEMMA InitStepIInv == IInv /\ AppInit => IInv'
<1> SUFFICES ASSUME IInv, AppInit PROVE IInv'
  OBVIOUS
<1> USE DEF image, flash, identity, hardware, Goto, Fail, Set, StoreUp
<1>1. CASE PrepareServer
  <2>1. TypeOK'
    BY <1>1 DEF IInv, PrepareServer, RunsServer, TypeOK, MainSteps,
                ServerSteps, Builds, Attributes
  <2>2. ServerWaitedFor'
    BY <1>1 DEF IInv, PrepareServer, RunsServer, ServerWaitedFor, AfterServer,
                Running
  <2>3. RangeBeforeValue'
    BY <1>1 DEF IInv, PrepareServer, RunsServer, ServerWaitedFor,
                RangeBeforeValue, AfterServer, Running
  <2> QED
    BY <2>1, <2>2, <2>3 DEF IInv
<1>2. CASE InitBoard
  <2>1. TypeOK'
    BY <1>2 DEF IInv, InitBoard, TypeOK, MainSteps, ServerSteps, Builds,
                Attributes
  <2>2. ServerWaitedFor'
    BY <1>2 DEF IInv, InitBoard, ServerWaitedFor, AfterServer, Running
  <2>3. RangeBeforeValue'
    BY <1>2 DEF IInv, InitBoard, ServerWaitedFor, RangeBeforeValue,
                AfterServer, Running
  <2> QED
    BY <2>1, <2>2, <2>3 DEF IInv
<1>3. CASE InitIdentify
  <2>1. TypeOK'
    BY <1>3 DEF IInv, InitIdentify, TypeOK, MainSteps, ServerSteps, Builds,
                Attributes
  <2>2. ServerWaitedFor'
    BY <1>3 DEF IInv, InitIdentify, ServerWaitedFor, AfterServer, Running
  <2>3. RangeBeforeValue'
    BY <1>3 DEF IInv, InitIdentify, ServerWaitedFor, RangeBeforeValue,
                AfterServer, Running
  <2> QED
    BY <2>1, <2>2, <2>3 DEF IInv
<1>4. CASE FindSht4x
  <2>1. TypeOK'
    BY <1>4 DEF IInv, FindSht4x, TypeOK, MainSteps, ServerSteps, Builds,
                Attributes
  <2>2. ServerWaitedFor'
    BY <1>4 DEF IInv, FindSht4x, ServerWaitedFor, AfterServer, Running
  <2>3. RangeBeforeValue'
    BY <1>4 DEF IInv, FindSht4x, ServerWaitedFor, RangeBeforeValue,
                AfterServer, Running
  <2> QED
    BY <2>1, <2>2, <2>3 DEF IInv
<1>5. CASE DiagInitWatchdog
  <2>1. TypeOK'
    <3>1. armed' \in BOOLEAN /\ refused' \in BOOLEAN
      BY <1>5 DEF IInv, DiagInitWatchdog, TypeOK
    <3> QED
      BY <1>5, <3>1 DEF IInv, DiagInitWatchdog, TypeOK, MainSteps
  <2>2. ServerWaitedFor'
    BY <1>5 DEF IInv, DiagInitWatchdog, ServerWaitedFor, AfterServer, Running
  <2>3. RangeBeforeValue'
    BY <1>5 DEF IInv, DiagInitWatchdog, ServerWaitedFor, RangeBeforeValue,
                AfterServer, Running
  <2> QED
    BY <2>1, <2>2, <2>3 DEF IInv
<1>6. CASE SetHint
  <2>1. TypeOK'
    BY <1>6 DEF IInv, SetHint, TypeOK, MainSteps, ServerSteps, Builds,
                Attributes
  <2>2. ServerWaitedFor'
    BY <1>6 DEF IInv, SetHint, ServerWaitedFor, AfterServer, Running
  <2>3. RangeBeforeValue'
    BY <1>6 DEF IInv, SetHint, TypeOK, Attributes, ServerWaitedFor,
                RangeBeforeValue, AfterServer, Running
  <2> QED
    BY <2>1, <2>2, <2>3 DEF IInv
<1>7. CASE SetInstruction
  <2>1. TypeOK'
    BY <1>7 DEF IInv, SetInstruction, TypeOK, MainSteps, ServerSteps, Builds,
                Attributes
  <2>2. ServerWaitedFor'
    BY <1>7 DEF IInv, SetInstruction, ServerWaitedFor, AfterServer, Running
  <2>3. RangeBeforeValue'
    BY <1>7 DEF IInv, SetInstruction, TypeOK, Attributes, ServerWaitedFor,
                RangeBeforeValue, AfterServer, Running
  <2> QED
    BY <2>1, <2>2, <2>3 DEF IInv
<1>8. CASE StartServer
  <2>1. TypeOK'
    BY <1>8 DEF IInv, StartServer, RunsServer, TypeOK, MainSteps, ServerSteps,
                Builds, Attributes
  <2>2. ServerWaitedFor'
    BY <1>8 DEF IInv, StartServer, RunsServer, ServerWaitedFor, AfterServer,
                Running,
                TypeOK
  <2>3. RangeBeforeValue'
    BY <1>8 DEF IInv, StartServer, RunsServer, ServerWaitedFor,
                RangeBeforeValue, AfterServer, Running
  <2> QED
    BY <2>1, <2>2, <2>3 DEF IInv
<1> QED
  BY <1>1, <1>2, <1>3, <1>4, <1>5, <1>6, <1>7, <1>8 DEF AppInit

(* A step of StartApp after Init, or a work item preserves the invariant.  *)
LEMMA StartStepIInv ==
  ASSUME IInv,
         GetMin \/ SetMin \/ SetMax \/ StartTimers \/ FirstUpdate \/ SensorWork
  PROVE  IInv'
<1> SUFFICES IInv'
  OBVIOUS
<1> USE DEF image, flash, identity, hardware, Goto, Fail, Set, StoreUp
<1>1. CASE GetMin
  <2>1. TypeOK'
    BY <1>1 DEF IInv, GetMin, TypeOK, MainSteps, ServerSteps, Builds,
                Attributes
  <2>2. ServerWaitedFor'
    BY <1>1 DEF IInv, GetMin, ServerWaitedFor, AfterServer, Running
  <2>3. RangeBeforeValue'
    BY <1>1 DEF IInv, GetMin, ServerWaitedFor, RangeBeforeValue, AfterServer,
                Running
  <2> QED
    BY <2>1, <2>2, <2>3 DEF IInv
<1>2. CASE SetMin
  <2>1. TypeOK'
    BY <1>2 DEF IInv, SetMin, TypeOK, MainSteps, ServerSteps, Builds,
                Attributes
  <2>2. ServerWaitedFor'
    BY <1>2 DEF IInv, SetMin, ServerWaitedFor, AfterServer, Running
  <2>3. RangeBeforeValue'
    BY <1>2 DEF IInv, SetMin, TypeOK, Attributes, ServerWaitedFor,
                RangeBeforeValue, AfterServer, Running
  <2> QED
    BY <2>1, <2>2, <2>3 DEF IInv
<1>3. CASE SetMax
  <2>1. TypeOK'
    BY <1>3 DEF IInv, SetMax, TypeOK, MainSteps, ServerSteps, Builds,
                Attributes
  <2>2. ServerWaitedFor'
    BY <1>3 DEF IInv, SetMax, ServerWaitedFor, AfterServer, Running
  <2>3. RangeBeforeValue'
    BY <1>3 DEF IInv, SetMax, TypeOK, Attributes, ServerWaitedFor,
                RangeBeforeValue, AfterServer, Running
  <2> QED
    BY <2>1, <2>2, <2>3 DEF IInv
<1>4. CASE StartTimers
  <2>1. TypeOK'
    BY <1>4 DEF IInv, StartTimers, TypeOK, MainSteps, ServerSteps, Builds,
                Attributes
  <2>2. ServerWaitedFor'
    BY <1>4 DEF IInv, StartTimers, ServerWaitedFor, AfterServer, Running
  <2>3. RangeBeforeValue'
    BY <1>4 DEF IInv, StartTimers, ServerWaitedFor, RangeBeforeValue,
                AfterServer, Running
  <2> QED
    BY <2>1, <2>2, <2>3 DEF IInv
<1>5. CASE FirstUpdate
  <2>1. TypeOK'
    <3>1. ASSUME NEW t \in Readings, Set("measured", t) PROVE attr' \in Attributes
      <4>1. attr \in Attributes /\ t \in Int
        BY ReadingRange DEF IInv, TypeOK
      <4> QED
        BY ONLY <3>1, <4>1 DEF Set, StoreUp, Attributes
    <3>2. attr' \in Attributes
      BY <1>5, <3>1 DEF IInv, FirstUpdate, TypeOK
    <3> QED
      BY <1>5, <3>2 DEF IInv, FirstUpdate, TypeOK, MainSteps
  <2>2. ServerWaitedFor'
    BY <1>5 DEF IInv, FirstUpdate, ServerWaitedFor, AfterServer, Running
  <2>3. RangeBeforeValue'
    BY <1>5 DEF IInv, FirstUpdate, TypeOK, Attributes, ServerWaitedFor,
                RangeBeforeValue, AfterServer, Running
  <2> QED
    BY <2>1, <2>2, <2>3 DEF IInv
<1>6. CASE SensorWork
  <2>1. TypeOK'
    <3>1. ASSUME NEW t \in Readings, Set("measured", t) PROVE attr' \in Attributes
      <4>1. attr \in Attributes /\ t \in Int
        BY ReadingRange DEF IInv, TypeOK
      <4> QED
        BY ONLY <3>1, <4>1 DEF Set, StoreUp, Attributes
    <3>2. attr' \in Attributes
      BY <1>6, <3>1 DEF IInv, SensorWork, TypeOK
    <3> QED
      BY <1>6, <3>2 DEF IInv, SensorWork, TypeOK, MainSteps
  <2>2. ServerWaitedFor'
    BY <1>6 DEF IInv, SensorWork, ServerWaitedFor, AfterServer, Running
  <2>3. RangeBeforeValue'
    BY <1>6 DEF IInv, SensorWork, TypeOK, Attributes, ServerWaitedFor,
                RangeBeforeValue, AfterServer, Running
  <2> QED
    BY <2>1, <2>2, <2>3 DEF IInv
<1> QED
  BY <1>1, <1>2, <1>3, <1>4, <1>5, <1>6

(* Every step preserves the invariant.                                     *)
LEMMA NextIInv == IInv /\ [Next]_vars => IInv'
<1> SUFFICES ASSUME IInv, [Next]_vars PROVE IInv'
  OBVIOUS
<1>1. CASE MainThread \/ SensorWork
  BY <1>1, WipeStepIInv, InitStepIInv, StartStepIInv DEF MainThread, StartApp
<1>2. CASE ServerInit
  BY <1>2, ServerStepIInv
<1>3. CASE \E bufSize \in BufferSizes : Identify(bufSize)
  <2>1. PICK bufSize \in BufferSizes : Identify(bufSize)
    BY <1>3
  <2>2. answer' \in Answers
    <3>1. TinyEnvGetRuntimeSerialNumber(bufSize) \in Answers
      <4>1. bufSize \in Nat
        BY <2>1, StartupAssumption
      <4> QED
        BY ONLY <4>1 DEF TinyEnvGetRuntimeSerialNumber, Answer, SerialLength,
                         Answers
    <3>2. \A h \in BOOLEAN : GetRuntimeRotatingIdUniqueId(bufSize, h) \in Answers
      BY DEF GetRuntimeRotatingIdUniqueId, Answer, UniqueIdLength, Answers
    <3>3. [NoAnswer EXCEPT !.status = "ok", !.from = provider] \in Answers
      BY DEF NoAnswer, Answers, IInv, TypeOK
    <3> QED
      BY <2>1, <3>1, <3>2, <3>3 DEF Identify
  <2>3. UNCHANGED <<image, flash, hardware, main, server, provider, attr, failedIn>>
    BY <2>1 DEF Identify
  <2> QED
    BY <2>2, <2>3 DEF IInv, TypeOK, ServerWaitedFor, RangeBeforeValue,
                      image, flash, hardware
<1>4. CASE WatchdogBites
  BY <1>4, RebootIInv DEF WatchdogBites, IInv, TypeOK
<1>5. CASE PowerCycle
  BY <1>5, RebootIInv DEF PowerCycle, IInv, TypeOK
<1>6. CASE UNCHANGED vars
  BY <1>6 DEF IInv, TypeOK, ServerWaitedFor, RangeBeforeValue,
              vars, image, flash, identity, hardware
<1> QED
  BY <1>1, <1>2, <1>3, <1>4, <1>5, <1>6 DEF Next

(* Readings lie in the range StartApp declares.                            *)
LEMMA RangeFromIInv == IInv => MeasuredInDeclaredRange
<1> SUFFICES ASSUME IInv, attr.measured # Null
             PROVE  attr.min <= attr.measured /\ attr.measured <= attr.max
  BY DEF MeasuredInDeclaredRange
<1>1. attr.min = -4000 /\ attr.max = 12500 /\ attr.measured \in Readings
  BY DEF IInv, RangeBeforeValue, Running
<1> QED
  BY ONLY <1>1, ReadingRange

(* The declarations of the module are kept.                                *)
THEOREM TypeCorrect == Spec => []TypeOK
<1>1. IInv => TypeOK
  BY DEF IInv
<1> QED
  BY InitIInv, NextIInv, <1>1, PTL DEF Spec

(* No client ever reads a measured temperature beside a declared range     *)
(* that does not hold it, although StartApp widens the generated range of  *)
(* -20 to 20 degrees with two calls while the server is already running.   *)
THEOREM RangeDeclaredFirst == Spec => []MeasuredInDeclaredRange
BY InitIInv, NextIInv, RangeFromIInv, PTL DEF Spec

-----------------------------------------------------------------------------
(* Identity.  A server that is ready has been through the callback after    *)
(* the initialisation of the SDK.                                           *)

IdentityInv ==
  /\ build.identity /\ server = "ready" => provider = "runtime"
  /\ RuntimeIdentityServed

(* Both callbacks report success only for an answer they stored whole.      *)
LEMMA SuccessIsWhole ==
  ASSUME NEW bufSize \in Nat,
         NEW a \in {TinyEnvGetRuntimeSerialNumber(bufSize)}
                     \cup {GetRuntimeRotatingIdUniqueId(bufSize, h) : h \in BOOLEAN}
  PROVE  a.from = "runtime" /\ (a.status = "ok" => a.length = a.whole)
<1>1. CASE a = TinyEnvGetRuntimeSerialNumber(bufSize)
  BY <1>1 DEF TinyEnvGetRuntimeSerialNumber, Answer, SerialLength
<1>2. CASE \E h \in BOOLEAN : a = GetRuntimeRotatingIdUniqueId(bufSize, h)
  BY <1>2 DEF GetRuntimeRotatingIdUniqueId, Answer, UniqueIdLength
<1> QED
  BY <1>1, <1>2

(* A step of the main thread or of a timer leaves the identity alone, and   *)
(* the server is no more ready after it than before.                        *)
LEMMA MainKeepsIdentity ==
  MainThread \/ SensorWork =>
    /\ UNCHANGED <<build, provider, answer>>
    /\ server' \in {server, "preInit"}
<1> SUFFICES ASSUME MainThread \/ SensorWork
             PROVE  /\ UNCHANGED <<build, provider, answer>>
                    /\ server' \in {server, "preInit"}
  OBVIOUS
<1> USE DEF image, identity
<1>1. CASE Main \/ OpenPartition \/ ErasePartition
  BY <1>1 DEF Main, OpenPartition, ErasePartition
<1>2. CASE AppInit
  <2>1. CASE PrepareServer \/ StartServer
    BY <2>1 DEF PrepareServer, StartServer, RunsServer
  <2>2. CASE InitBoard \/ InitIdentify \/ FindSht4x \/ DiagInitWatchdog
    BY <2>2 DEF InitBoard, InitIdentify, FindSht4x, DiagInitWatchdog
  <2>3. CASE SetHint \/ SetInstruction
    BY <2>3 DEF SetHint, SetInstruction
  <2> QED
    BY <1>2, <2>1, <2>2, <2>3 DEF AppInit
<1>3. CASE GetMin \/ SetMin \/ SetMax
  BY <1>3 DEF GetMin, SetMin, SetMax
<1>4. CASE StartTimers \/ FirstUpdate \/ SensorWork
  BY <1>4 DEF StartTimers, FirstUpdate, SensorWork
<1> QED
  BY <1>1, <1>2, <1>3, <1>4 DEF MainThread, StartApp

(* Every step keeps the invariant of the identity served.                   *)
LEMMA NextIdentityInv == IdentityInv /\ [Next]_vars => IdentityInv'
<1> SUFFICES ASSUME IdentityInv, [Next]_vars PROVE IdentityInv'
  OBVIOUS
<1> USE DEF IdentityInv, RuntimeIdentityServed
<1>1. CASE MainThread \/ SensorWork
  BY <1>1, MainKeepsIdentity
<1>2. CASE ServerInit
  <2>1. CASE PreServerInit
    BY <2>1 DEF PreServerInit, image
  <2>2. CASE SdkProvider
    BY <2>2 DEF SdkProvider, image
  <2>3. CASE LoadAttributes
    BY <2>3 DEF LoadAttributes, image, identity
  <2>4. CASE PostServerInit
    BY <2>4 DEF PostServerInit, image
  <2> QED
    BY <1>2, <2>1, <2>2, <2>3, <2>4 DEF ServerInit
<1>3. CASE \E bufSize \in BufferSizes : Identify(bufSize)
  <2>1. PICK bufSize \in BufferSizes : Identify(bufSize)
    BY <1>3
  <2>2. bufSize \in Nat
    BY <2>1, StartupAssumption
  <2>3. server = "ready" /\ UNCHANGED <<build, server, provider>>
    BY <2>1 DEF Identify, image
  <2>4. CASE provider = "runtime"
    <3>1. answer' \in {TinyEnvGetRuntimeSerialNumber(bufSize)}
                      \cup {GetRuntimeRotatingIdUniqueId(bufSize, h) : h \in BOOLEAN}
      BY <2>1, <2>4 DEF Identify
    <3>2. answer'.from = "runtime" /\ (answer'.status = "ok" => answer'.length = answer'.whole)
      BY <2>2, <3>1, SuccessIsWhole
    <3> QED
      BY <2>3, <2>4, <3>2
  <2>5. CASE provider # "runtime"
    BY <2>3, <2>5
  <2> QED
    BY <2>4, <2>5
<1>4. CASE WatchdogBites \/ PowerCycle
  BY <1>4 DEF WatchdogBites, PowerCycle, Reboot, NoAnswer
<1>5. CASE UNCHANGED vars
  BY <1>5 DEF vars, image, identity
<1> QED
  BY <1>1, <1>2, <1>3, <1>4, <1>5 DEF Next

(* With TINYENV_RUNTIME_MATTER_IDENTITY every client that gets an answer    *)
(* gets that of the chip, and whole: whatever provider the SDK installs     *)
(* between the two callbacks, and whatever buffers clients bring.           *)
THEOREM ChipIdentityServed == Spec => []RuntimeIdentityServed
<1>1. Init => IdentityInv
  BY DEF Init, IdentityInv, RuntimeIdentityServed, NoAnswer
<1>2. IdentityInv => RuntimeIdentityServed
  BY DEF IdentityInv
<1> QED
  BY <1>1, <1>2, NextIdentityInv, PTL DEF Spec

-----------------------------------------------------------------------------
(* The wake hint.  Between the two Sets the hint is ahead, if there is an   *)
(* attribute storage at all by then; LoadAttributes never comes between     *)
(* them, because the main thread waits for the server (ServerWaitedFor).    *)

HintInv ==
  /\ StoreUp /\ main # "instruction" => attr.hint = attr.instruction
  /\ StoreUp /\ main = "instruction" => attr.hint = "powerCycle"

(* Every step keeps the invariant of the wake hint.                         *)
LEMMA NextHintInv == IInv /\ HintInv /\ [Next]_vars => HintInv'
<1> SUFFICES ASSUME IInv, HintInv, [Next]_vars PROVE HintInv'
  OBVIOUS
<1> USE DEF HintInv, StoreUp, Goto, Fail
<1>a. attr \in Attributes
  BY DEF IInv, TypeOK
<1>1. CASE Main \/ OpenPartition \/ ErasePartition
  BY <1>1 DEF Main, OpenPartition, ErasePartition
<1>2. CASE AppInit
  <2>1. CASE PrepareServer
    BY <2>1 DEF PrepareServer, RunsServer
  <2>2. CASE StartServer
    BY <2>2 DEF StartServer, RunsServer
  <2>3. CASE InitBoard \/ InitIdentify \/ FindSht4x \/ DiagInitWatchdog
    BY <2>3 DEF InitBoard, InitIdentify, FindSht4x, DiagInitWatchdog
  <2>4. CASE SetHint
    BY <2>4, <1>a DEF SetHint, Set, Attributes
  <2>5. CASE SetInstruction
    BY <2>5, <1>a DEF SetInstruction, Set, Attributes
  <2> QED
    BY <1>2, <2>1, <2>2, <2>3, <2>4, <2>5 DEF AppInit
<1>3. CASE GetMin \/ SetMin \/ SetMax
  BY <1>3, <1>a DEF GetMin, SetMin, SetMax, Set, Attributes
<1>4. CASE StartTimers \/ FirstUpdate \/ SensorWork
  BY <1>4, <1>a DEF StartTimers, FirstUpdate, SensorWork, Set, Attributes
<1>5. CASE ServerInit
  <2>1. server \in {"preInit", "sdk", "store", "postInit"} => main # "instruction"
    BY DEF IInv, ServerWaitedFor
  <2>2. CASE PreServerInit \/ SdkProvider
    BY <2>2 DEF PreServerInit, SdkProvider
  <2>3. CASE LoadAttributes
    BY <2>1, <2>3 DEF LoadAttributes, Defaults
  <2>4. CASE PostServerInit
    BY <2>1, <2>4 DEF PostServerInit
  <2> QED
    BY <1>5, <2>2, <2>3, <2>4 DEF ServerInit
<1>6. CASE \E bufSize \in BufferSizes : Identify(bufSize)
  BY <1>6 DEF Identify
<1>7. CASE WatchdogBites \/ PowerCycle
  BY <1>7 DEF WatchdogBites, PowerCycle, Reboot
<1>8. CASE UNCHANGED vars
  BY <1>8 DEF vars
<1> QED
  BY <1>1, <1>2, <1>3, <1>4, <1>5, <1>6, <1>7, <1>8 DEF Next, MainThread, StartApp

(* A user never reads an instruction that does not go with the wake hint    *)
(* beside it, but between the two calls that set them: whether the SDK      *)
(* creates the attribute storage before AppTask::Init sets them or after.   *)
THEOREM HintAndInstructionAgree == Spec => []WakeHintExplained
<1>1. Init => HintInv
  BY DEF Init, HintInv, StoreUp
<1>2. IInv /\ HintInv => WakeHintExplained
  BY DEF HintInv, WakeHintExplained, StoreUp
<1> QED
  BY <1>1, <1>2, InitIInv, NextIInv, NextHintInv, PTL DEF Spec

-----------------------------------------------------------------------------
(* The wipe build and the others go separate ways from main on.             *)

WipeSteps == {"main", "openPartition", "erase", "parked"}

WipeInv ==
  /\ build.wipe => main \in WipeSteps /\ server = "down" /\ provider = "none"
  /\ ~build.wipe => main \notin WipeSteps \ {"main"} /\ settings = "kept"
  /\ main = "parked" => (logged = "erased" => settings = "erased")

(* Every step keeps the invariant of the wipe build.                        *)
LEMMA NextWipeInv == WipeInv /\ [Next]_vars => WipeInv'
<1> SUFFICES ASSUME WipeInv, [Next]_vars PROVE WipeInv'
  OBVIOUS
<1> USE DEF WipeInv, WipeSteps, image, flash, identity, Goto, Fail
<1>1. CASE Main
  BY <1>1 DEF Main
<1>2. CASE OpenPartition
  BY <1>2 DEF OpenPartition
<1>3. CASE ErasePartition
  BY <1>3 DEF ErasePartition
<1>4. CASE AppInit
  <2>1. CASE PrepareServer
    BY <2>1 DEF PrepareServer, RunsServer
  <2>2. CASE StartServer
    BY <2>2 DEF StartServer, RunsServer
  <2>3. CASE InitBoard \/ InitIdentify
    BY <2>3 DEF InitBoard, InitIdentify
  <2>4. CASE FindSht4x \/ DiagInitWatchdog
    BY <2>4 DEF FindSht4x, DiagInitWatchdog
  <2>5. CASE SetHint \/ SetInstruction
    BY <2>5 DEF SetHint, SetInstruction
  <2> QED
    BY <1>4, <2>1, <2>2, <2>3, <2>4, <2>5 DEF AppInit
<1>5. CASE GetMin \/ SetMin \/ SetMax
  BY <1>5 DEF GetMin, SetMin, SetMax
<1>6. CASE StartTimers \/ FirstUpdate \/ SensorWork
  BY <1>6 DEF StartTimers, FirstUpdate, SensorWork
<1>7. CASE ServerInit
  BY <1>7 DEF ServerInit, PreServerInit, SdkProvider, LoadAttributes, PostServerInit
<1>8. CASE \E bufSize \in BufferSizes : Identify(bufSize)
  BY <1>8 DEF Identify
<1>9. CASE WatchdogBites \/ PowerCycle
  BY <1>9 DEF WatchdogBites, PowerCycle, Reboot
<1>10. CASE UNCHANGED vars
  BY <1>10 DEF vars
<1> QED
  BY <1>1, <1>2, <1>3, <1>4, <1>5, <1>6, <1>7, <1>8, <1>9, <1>10
     DEF Next, MainThread, StartApp

(* A wipe build never starts Matter and never returns from main; what it    *)
(* logs when it parks is true of the partition, however often its erase was *)
(* cut by a power cycle; no other build touches the partition.              *)
THEOREM WipeParks == Spec => []WipeBuildParks
<1>1. Init => WipeInv
  BY DEF Init, WipeInv, WipeSteps
<1>2. WipeInv => WipeBuildParks
  BY DEF WipeInv, WipeBuildParks, WipeSteps
<1> QED
  BY <1>1, <1>2, NextWipeInv, PTL DEF Spec

=============================================================================

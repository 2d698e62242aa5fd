------------------------- MODULE ServiceCallsProofs -------------------------
(***************************************************************************)
(* Proofs about calling the node's services: the books of callers and node *)
(* agree, a job repeated after "no" is accepted once, and what the console *)
(* is sure of is what the node runs.                                       *)
(***************************************************************************)
EXTENDS ServiceCallsProperties, SequenceTheorems, FiniteSetTheorems, TLAPS

-----------------------------------------------------------------------------
(* Types                                                                   *)

Said == {"yes", "unclear"}

\* A thread is free or does a step.
LEMMA ThreadSpec ==
    ASSUME TypeOK, NEW t \in Thread
    PROVE  /\ thread[t] \in {Free} \cup Step
           /\ ~Busy(t) => thread[t] = Free
           /\ Busy(t) => thread[t] \in Step
BY DEF TypeOK, Busy, Free, Step

\* What a request asks for.
LEMMA RequestSpec ==
    ASSUME NEW request \in Request
    PROVE  /\ request.service \in Service
           /\ request.service = "submit_task" =>
                 \E j \in Job : request.value = <<j>> /\ request.value[1] = j
           /\ request.service = "set_plugins" => request.value \in Plugins
           /\ request.service = "set_robot_mode" =>
                 request.value \in {<<"STOP">>, <<"?">>}
<1>1. CASE request \in [service : {"submit_task"}, from : {"aba_service", "console"},
                        value : {<<j>> : j \in Job}]
  BY <1>1 DEF Service
<1>2. CASE request \in [service : {"set_plugins"}, from : {"console"}, value : Plugins]
  BY <1>2 DEF Service
<1>3. CASE request \in [service : {"set_robot_mode"}, from : {"console"},
                        value : {<<"STOP">>, <<"?">>}]
  BY <1>3 DEF Service
<1> QED BY <1>1, <1>2, <1>3 DEF Request

\* A thread that does a step, and nobody else.
LEMMA DoingSpec ==
    ASSUME TypeOK, NEW t \in Thread, NEW step \in {Free} \cup Step, Doing(t, step)
    PROVE  /\ thread' \in [Thread -> {Free} \cup Step]
           /\ \A o \in Thread : thread'[o] = IF o = t THEN step ELSE thread[o]
BY DEF TypeOK, Doing

\* A step of t on the way to the service: it stays with its request.
Moves(t) ==
    /\ Busy(t) /\ thread[t].pc # "waiting"
    /\ thread'[t] \in Step /\ thread'[t].pc # "waiting"
    /\ thread'[t].number = thread[t].number /\ thread'[t].request = thread[t].request
    /\ thread'[t].reply = thread[t].reply
    /\ \A o \in Thread \ {t} : thread'[o] = thread[o]
    /\ thread' \in [Thread -> {Free} \cup Step]
    /\ UNCHANGED <<calls, node, view, record>>

\* The end of the HTTP request of t with an answer.
Finishes(t, answer) ==
    /\ Busy(t)
    /\ thread'[t] = Free
    /\ \A o \in Thread \ {t} : thread'[o] = thread[o]
    /\ thread' \in [Thread -> {Free} \cup Step]
    /\ \/ /\ thread[t].request.service = "submit_task" /\ answer # "no"
          /\ \E j \in Job : /\ thread[t].request.value = <<j>>
                            /\ told' = [told EXCEPT ![j][answer] = @ + 1]
       \/ ~(thread[t].request.service = "submit_task" /\ answer # "no") /\ told' = told
    /\ UNCHANGED <<calls, node, accepted>>

\* What get_bridge, rclpy.init() and the new bridge do to their thread.
LEMMA MovesSpec ==
    ASSUME TypeOK, NEW t \in Thread, NEW pc \in {"starting", "building", "bridged"},
           thread[t].pc \in {"entered", "starting", "building"},
           Doing(t, [thread[t] EXCEPT !.pc = pc]),
           UNCHANGED <<calls, node, view, record>>
    PROVE  Moves(t)
<1> DEFINE step == [thread[t] EXCEPT !.pc = pc]
<1>1. Busy(t) /\ thread[t] \in Step
  BY ThreadSpec DEF Busy
<1>2. /\ step \in Step /\ step.pc = pc
      /\ step.number = thread[t].number /\ step.request = thread[t].request
      /\ step.reply = thread[t].reply
  BY <1>1 DEF Step
<1> HIDE DEF step
<1>3. Doing(t, step)
  BY DEF step
<1>4. /\ thread' \in [Thread -> {Free} \cup Step]
      /\ \A o \in Thread : thread'[o] = IF o = t THEN step ELSE thread[o]
  BY <1>2, <1>3, DoingSpec
<1> QED BY <1>1, <1>2, <1>4 DEF Moves

\* What the end of an HTTP request does.
LEMMA EndsSpec ==
    ASSUME TypeOK, NEW t \in Thread, Busy(t), NEW answer, Ends(t, answer),
           UNCHANGED <<calls, node, accepted>>
    PROVE  Finishes(t, answer)
<1>1. thread[t] \in Step
  BY ThreadSpec
<1>2. /\ thread' \in [Thread -> {Free} \cup Step]
      /\ \A o \in Thread : thread'[o] = IF o = t THEN Free ELSE thread[o]
  BY DoingSpec DEF Ends
<1>3. CASE thread[t].request.service = "submit_task" /\ answer # "no"
  <2>1. PICK j \in Job : thread[t].request.value = <<j>> /\ thread[t].request.value[1] = j
    BY <1>1, <1>3, RequestSpec DEF Step
  <2>2. told' = [told EXCEPT ![j][answer] = @ + 1]
    BY <1>3, <2>1 DEF Ends
  <2> QED BY <1>2, <1>3, <2>1, <2>2 DEF Finishes
<1>4. CASE ~(thread[t].request.service = "submit_task" /\ answer # "no")
  BY <1>2, <1>4 DEF Ends, Finishes
<1> QED BY <1>3, <1>4

\* Every step of a thread but Send moves it or finishes its request.
LEMMA HandleSpec ==
    ASSUME TypeOK, NEW t \in Thread, Handle(t)
    PROVE  \/ Send(t)
           \/ Moves(t)
           \/ /\ Finishes(t, "no") \/ Finishes(t, "unclear")
              /\ thread[t].pc \in {"starting", "bridged"}
              /\ UNCHANGED <<view, sure>>
           \/ Finishes(t, "unclear") /\ TimedOut(t) /\ UNCHANGED <<view, sure>>
           \/ /\ Answered(t) /\ thread[t].reply # <<>>
              /\ Finishes(t, IF thread[t].reply[1] THEN "yes" ELSE "no")
<1>1. CASE get_bridge(t)
  <2>1. \E pc \in {"starting", "building", "bridged"} :
           Doing(t, [thread[t] EXCEPT !.pc = pc])
    BY <1>1 DEF get_bridge
  <2> QED BY <1>1, <2>1, MovesSpec DEF get_bridge, client
<1>2. CASE InitRos(t)
  <2>1. CASE ros
    <3>1. Busy(t) /\ Ends(t, "unclear") /\ UNCHANGED <<calls, node, accepted, view, sure>>
      BY <1>2, <2>1 DEF InitRos, Busy
    <3> QED BY <1>2, <3>1, EndsSpec DEF InitRos
  <2>2. CASE ~ros
    BY <1>2, <2>2, MovesSpec DEF InitRos, record
  <2> QED BY <2>1, <2>2
<1>3. CASE SetBridge(t)
  BY <1>3, MovesSpec DEF SetBridge
<1>4. CASE NotThere(t)
  <2>1. Busy(t) /\ Ends(t, "no") /\ UNCHANGED <<calls, node, accepted, view, sure>>
    BY <1>4 DEF NotThere, Busy, client
  <2> QED BY <1>4, <2>1, EndsSpec DEF NotThere
<1>5. CASE TimedOut(t)
  <2>1. Busy(t) /\ Ends(t, "unclear") /\ UNCHANGED <<calls, node, accepted, view, sure>>
    BY <1>5 DEF TimedOut, Busy, client
  <2> QED BY <1>5, <2>1, EndsSpec
<1>6. CASE Answered(t)
  <2>1. /\ Busy(t) /\ thread[t].reply # <<>>
        /\ Ends(t, IF thread[t].reply[1] THEN "yes" ELSE "no")
        /\ UNCHANGED <<calls, node, accepted>>
    BY <1>6 DEF Answered, Busy, client
  <2> QED BY <1>6, <2>1, EndsSpec
<1> QED BY <1>1, <1>2, <1>3, <1>4, <1>5, <1>6 DEF Handle

\* A finished request leaves numbers in the callers' books.
LEMMA FinishesSpec ==
    ASSUME TypeOK, NEW t \in Thread, NEW answer \in {"yes", "unclear", "no"},
           Finishes(t, answer)
    PROVE  /\ told' \in [Job -> [Said -> Nat]]
           /\ \A j \in Job : \A a \in Said :
                 told'[j][a] = IF BusyWith(t, j) /\ answer = a
                               THEN told[j][a] + 1 ELSE told[j][a]
<1>1. told \in [Job -> [Said -> Nat]]
  BY DEF TypeOK, Said
<1>2. CASE /\ thread[t].request.service = "submit_task" /\ answer # "no"
           /\ \E j \in Job : /\ thread[t].request.value = <<j>>
                             /\ told' = [told EXCEPT ![j][answer] = @ + 1]
  <2>1. PICK j \in Job : /\ thread[t].request.value = <<j>>
                         /\ told' = [told EXCEPT ![j][answer] = @ + 1]
    BY <1>2
  <2>2. answer \in Said
    BY <1>2 DEF Said
  <2>3. told' = [told EXCEPT ![j] = [told[j] EXCEPT ![answer] = told[j][answer] + 1]]
    BY <2>1
  <2>4. [told[j] EXCEPT ![answer] = told[j][answer] + 1] \in [Said -> Nat]
    BY <1>1, <2>2
  <2>5. told' \in [Job -> [Said -> Nat]]
    BY <1>1, <2>3, <2>4
  <2>6. \A k \in Job : BusyWith(t, k) <=> k = j
    BY <1>2, <2>1 DEF Finishes, BusyWith
  <2>7. \A k \in Job : \A a \in Said :
           told'[k][a] = IF k = j /\ a = answer THEN told[k][a] + 1 ELSE told[k][a]
    BY <1>1, <2>2, <2>3
  <2> QED BY <2>5, <2>6, <2>7
<1>3. CASE /\ ~(thread[t].request.service = "submit_task" /\ answer # "no")
           /\ told' = told
  BY <1>1, <1>3 DEF BusyWith, Said
<1> QED BY <1>2, <1>3 DEF Finishes

\* Values of settings are sequences of names.
LEMMA NamesSpec ==
    ASSUME NEW a \in Name, NEW b \in Name
    PROVE  <<a>> \in Seq(Name) /\ <<a, b>> \in Seq(Name)
OBVIOUS

\* The answers of the node are about settings in force.
LEMMA OutcomesSpec ==
    ASSUME TypeOK, NEW request \in Request, NEW answer \in Outcomes(request)
    PROVE  /\ answer \in BOOLEAN \X Seq(Name)
           /\ request.service = "set_plugins" => answer[2] \in Name \X Name
<1>1. CASE request.service = "submit_task"
  <2>1. PICK ok \in BOOLEAN : answer = <<ok, <<>>>>
    BY <1>1 DEF Outcomes, Answer
  <2>2. <<>> \in Seq(Name)
    BY EmptySeq
  <2> QED BY <1>1, <2>1, <2>2
<1>2. CASE request.service = "set_plugins"
  <2>1. Loaded(request.value) \in Name \X Name
    <3>1. request.value[1] \in Name /\ request.value[2] \in Name
      BY <1>2, RequestSpec DEF Name
    <3> QED BY <3>1 DEF TypeOK, Loaded
  <2>2. PICK ok \in BOOLEAN : answer = <<ok, Loaded(request.value)>>
    BY <1>2 DEF Outcomes, Answer
  <2>3. Loaded(request.value) \in Seq(Name)
    BY <2>1, NamesSpec DEF Loaded
  <2> QED BY <2>1, <2>2, <2>3
<1>3. CASE request.service = "set_robot_mode"
  <2>1. request.value \in {<<"STOP">>, <<"?">>} /\ request.value \in Seq(Name)
    <3>1. request.value \in {<<"STOP">>, <<"?">>}
      BY <1>3, RequestSpec
    <3>2. "STOP" \in Name /\ "?" \in Name
      BY DEF Name
    <3> QED BY <3>1, <3>2, NamesSpec
  <2>2. setting["set_robot_mode"] \in Seq(Name)
    BY DEF TypeOK, Setting
  <2>3. \/ answer = <<FALSE, setting["set_robot_mode"]>>
        \/ answer = <<TRUE, request.value>>
    BY <1>3 DEF Outcomes, Answer
  <2>4. CASE answer = <<FALSE, setting["set_robot_mode"]>>
    BY <1>3, <2>2, <2>4
  <2>5. CASE answer = <<TRUE, request.value>>
    <3>1. PICK v \in Seq(Name) : v = request.value
      BY <2>1
    <3>2. answer = <<TRUE, v>>
      BY <2>5, <3>1
    <3> QED BY <1>3, <3>2
  <2> QED BY <2>3, <2>4, <2>5
<1> QED BY <1>1, <1>2, <1>3, RequestSpec DEF Service

\* So are the settings a node starts with.
LEMMA DefaultSpec ==
    Default \in [Setting -> Seq(Name)] /\ Default["set_plugins"] \in Name \X Name
<1>1. "d" \in Name /\ "t" \in Name /\ "PATROL" \in Name
  BY DEF Name
<1>2. <<"d", "t">> \in Seq(Name) /\ <<"PATROL">> \in Seq(Name)
  BY <1>1, NamesSpec
<1> QED BY <1>2 DEF Default, Setting

\* Steps of threads keep the types.
LEMMA HandleKeepsTypes ==
    ASSUME TypeOK, NEW t \in Thread, Handle(t)
    PROVE  TypeOK'
<1>1. CASE Moves(t)
  BY <1>1 DEF Moves, TypeOK, node, record
<1>2. ASSUME NEW answer \in {"yes", "unclear", "no"}, Finishes(t, answer),
             view' \in [Setting -> Seq(Name)], sure' \subseteq Setting
      PROVE  TypeOK'
  <2>1. told' \in [Job -> [{"yes", "unclear"} -> Nat]]
    BY <1>2, FinishesSpec DEF Said
  <2>2. thread' \in [Thread -> {Free} \cup Step]
    BY <1>2 DEF Finishes
  <2>3. UNCHANGED <<calls, queue, up, setting, accepted>>
    BY <1>2 DEF Finishes, node
  <2> QED BY <1>2, <2>1, <2>2, <2>3 DEF TypeOK
<1>3. ASSUME NEW answer \in {"yes", "unclear", "no"}, Finishes(t, answer),
             UNCHANGED <<view, sure>>
      PROVE  TypeOK'
  BY <1>2, <1>3 DEF TypeOK
<1>4. CASE Answered(t) /\ Finishes(t, IF thread[t].reply[1] THEN "yes" ELSE "no")
           /\ thread[t].reply # <<>>
  <2>1. thread[t] \in Step /\ thread[t].reply \in BOOLEAN \X Seq(Name)
    <3>1. thread[t] \in Step
      BY <1>4, ThreadSpec DEF Answered, Busy
    <3> QED BY <1>4, <3>1 DEF Step
  <2>2. view' \in [Setting -> Seq(Name)] /\ sure' \subseteq Setting
    <3>1. CASE thread[t].request.service \in Setting
      <4>1. Shown(thread[t].request.service, thread[t].reply) \in Seq(Name)
        BY <2>1, <3>1 DEF Shown, TypeOK
      <4>2. /\ view' = [view EXCEPT ![thread[t].request.service] =
                          Shown(thread[t].request.service, thread[t].reply)]
            /\ sure' \subseteq sure \cup {thread[t].request.service}
        BY <1>4, <3>1 DEF Answered
      <4> QED BY <3>1, <4>1, <4>2 DEF TypeOK
    <3>2. CASE thread[t].request.service \notin Setting
      BY <1>4, <3>2 DEF Answered, TypeOK
    <3> QED BY <3>1, <3>2
  <2> QED BY <1>2, <1>4, <2>2
<1>5. CASE Send(t)
  <2> DEFINE service == thread[t].request.service
             entry == <<thread[t].number, thread[t].request>>
  <2>1. thread[t] \in Step /\ service \in Service /\ entry \in Nat \X Request
    <3>1. thread[t] \in Step
      BY <1>5, ThreadSpec DEF Send, Busy
    <3>2. thread[t].number \in Nat /\ thread[t].request \in Request
      BY <3>1 DEF Step
    <3> QED BY <3>1, <3>2, RequestSpec
  <2>2. queue' = [queue EXCEPT ![service] = Append(queue[service], entry)]
    BY <1>5 DEF Send
  <2>3. queue' \in [Service -> Seq(Nat \X Request)]
    <3>1. queue[service] \in Seq(Nat \X Request)
      BY <2>1 DEF TypeOK
    <3>2. Append(queue[service], entry) \in Seq(Nat \X Request)
      BY <2>1, <3>1, AppendProperties
    <3> QED BY <2>2, <3>2 DEF TypeOK
  <2>4. thread' \in [Thread -> {Free} \cup Step]
    <3>1. PICK others \in SUBSET {o \in Thread \ {t} : thread[o].pc = "waiting"} :
          thread' = [o \in Thread |->
               IF o = t THEN [thread[t] EXCEPT !.pc = "waiting", !.alone = others = {}]
               ELSE IF o \in others THEN [thread[o] EXCEPT !.alone = FALSE]
               ELSE thread[o]]
      BY <1>5 DEF Send
    <3>2. [thread[t] EXCEPT !.pc = "waiting", !.alone = others = {}] \in Step
      BY <2>1 DEF Step
    <3>3. \A o \in Thread : o \in others =>
             [thread[o] EXCEPT !.alone = FALSE] \in {Free} \cup Step
      <4>1. \A o \in others : o # t /\ thread[o].pc = "waiting"
        BY <3>1
      <4>2. \A x \in Step : [x EXCEPT !.alone = FALSE] \in Step
        BY DEF Step
      <4> QED BY <4>1, <4>2, ThreadSpec DEF Busy
    <3> QED BY <3>1, <3>2, <3>3 DEF TypeOK
  <2> QED BY <1>5, <2>3, <2>4 DEF Send, TypeOK, client
<1> QED BY <1>1, <1>3, <1>4, <1>5, HandleSpec

\* So do new requests and the node's steps.
LEMMA NodeKeepsTypes ==
    ASSUME TypeOK, NumbersTell,
                   \/ \E t \in Thread : \E request \in Request : Begin(t, request)
                   \/ \E s \in Service : Serve(s)
                   \/ Crash \/ Start
    PROVE  TypeOK'
<1>1. ASSUME NEW t \in Thread, NEW request \in Request, Begin(t, request)
      PROVE  TypeOK'
  <2> DEFINE step == [pc |-> IF request.from = "aba_service" THEN "entered" ELSE "bridged",
                      number |-> calls + 1, request |-> request, alone |-> TRUE,
                      reply |-> <<>>]
  <2>1. step \in Step /\ calls + 1 \in Nat
    BY DEF TypeOK, Step
  <2>2. Doing(t, step)
    BY <1>1 DEF Begin
  <2> HIDE DEF step
  <2>3. thread' \in [Thread -> {Free} \cup Step]
    BY <2>1, <2>2, DoingSpec
  <2> QED BY <1>1, <2>1, <2>3 DEF Begin, TypeOK, node, record
<1>2. ASSUME NEW s \in Service, Serve(s)
      PROVE  TypeOK'
  <2> DEFINE number == Head(queue[s])[1]
             request == Head(queue[s])[2]
  <2>1. /\ queue[s] \in Seq(Nat \X Request) /\ queue[s] # <<>>
        /\ request \in Request /\ Tail(queue[s]) \in Seq(Nat \X Request)
        /\ request.service = s
    <3>1. queue[s] \in Seq(Nat \X Request) /\ queue[s] # <<>>
      BY <1>2 DEF Serve, TypeOK
    <3>2. Head(queue[s]) \in Nat \X Request /\ Tail(queue[s]) \in Seq(Nat \X Request)
      BY <3>1, HeadTailProperties
    <3>3. Head(queue[s]) = queue[s][1] /\ 1 \in Places(s)
      BY <3>1, EmptySeq DEF Places
    <3>4. request.service = s
      BY <3>3 DEF NumbersTell
    <3> QED BY <3>1, <3>2, <3>4
  <2>2. PICK answer \in Outcomes(request) :
           /\ thread' = [t \in Thread |->
                  IF thread[t].pc = "waiting" /\ thread[t].number = number
                  THEN [thread[t] EXCEPT !.reply = answer] ELSE thread[t]]
           /\ IF s \in Setting
              THEN /\ setting' = [setting EXCEPT ![s] = answer[2]]
                   /\ UNCHANGED accepted
              ELSE /\ accepted' = [accepted EXCEPT ![request.value[1]] =
                                      IF answer[1] THEN @ + 1 ELSE @]
                   /\ UNCHANGED setting
    BY <1>2 DEF Serve
  <2> HIDE DEF number, request
  <2>3. answer \in BOOLEAN \X Seq(Name)
        /\ (request.service = "set_plugins" => answer[2] \in Name \X Name)
    BY <2>1, OutcomesSpec
  <2>4. thread' \in [Thread -> {Free} \cup Step]
    <3>1. \A t \in Thread : thread[t].pc = "waiting" =>
             [thread[t] EXCEPT !.reply = answer] \in Step
      <4>1. \A x \in Step : [x EXCEPT !.reply = answer] \in Step
        BY <2>3 DEF Step
      <4> QED BY <4>1, ThreadSpec DEF Busy
    <3> QED BY <2>2, <3>1 DEF TypeOK
  <2>5. queue' = [queue EXCEPT ![s] = Tail(queue[s])]
        /\ UNCHANGED <<calls, up, view, told, sure>>
    BY <1>2 DEF Serve, client
  <2>6. queue' \in [Service -> Seq(Nat \X Request)]
    BY <2>1, <2>5 DEF TypeOK
  <2>7. CASE s \in Setting
    <3>1. setting' = [setting EXCEPT ![s] = answer[2]] /\ accepted' = accepted
      BY <2>2, <2>7
    <3>2. setting' \in [Setting -> Seq(Name)]
      BY <2>3, <2>7, <3>1 DEF TypeOK
    <3>3. setting'["set_plugins"] \in Name \X Name
      BY <2>1, <2>3, <2>7, <3>1 DEF TypeOK, Setting
    <3> QED BY <2>4, <2>5, <2>6, <3>1, <3>2, <3>3 DEF TypeOK
  <2>8. CASE s \notin Setting
    <3>1. /\ setting' = setting
          /\ accepted' = [accepted EXCEPT ![request.value[1]] =
                             IF answer[1] THEN @ + 1 ELSE @]
      BY <2>2, <2>8
    <3>2. request.value[1] \in Job
      BY <2>1, <2>8, RequestSpec DEF Setting, Service
    <3>3. accepted' \in [Job -> Nat]
      BY <3>1, <3>2 DEF TypeOK
    <3> QED BY <2>4, <2>5, <2>6, <3>1, <3>3 DEF TypeOK
  <2> QED BY <2>7, <2>8
<1>3. CASE Crash
  <2>1. queue' \in [Service -> Seq(Nat \X Request)]
    BY <1>3, EmptySeq DEF Crash
  <2>2. thread' \in [Thread -> {Free} \cup Step]
    <3>1. \A t \in Thread : thread[t].pc = "waiting" =>
             [thread[t] EXCEPT !.alone = FALSE] \in Step
      <4>1. \A x \in Step : [x EXCEPT !.alone = FALSE] \in Step
        BY DEF Step
      <4> QED BY <4>1, ThreadSpec DEF Busy
    <3> QED BY <1>3, <3>1 DEF Crash, TypeOK
  <2> QED BY <1>3, <2>1, <2>2 DEF Crash, TypeOK, client
<1>4. CASE Start
  <2>1. Default \in [Setting -> Seq(Name)] /\ Default["set_plugins"] \in Name \X Name
    BY DefaultSpec
  <2> QED BY <1>4, <2>1 DEF Start, TypeOK, client, record
<1> QED BY <1>1, <1>2, <1>3, <1>4

-----------------------------------------------------------------------------
(* What steps do to threads and queues                                     *)

\* A thread that ends, or stays with its request and its answer.
Stays(t) ==
    \/ thread'[t].pc = "free"
    \/ /\ Busy(t)
       /\ thread'[t].pc = thread[t].pc \/ "waiting" \notin {thread'[t].pc, thread[t].pc}
       /\ thread'[t].number = thread[t].number
       /\ thread'[t].request = thread[t].request
       /\ thread'[t].reply = thread[t].reply

\* All that matters of a thread but whether its call is alone.
Keeps(t) ==
    /\ thread'[t].pc = thread[t].pc /\ thread'[t].number = thread[t].number
    /\ thread'[t].request = thread[t].request /\ thread'[t].reply = thread[t].reply

\* A request of thread t joins the queue.
Sends(t, service) ==
    /\ Busy(t) /\ thread[t].pc = "bridged" /\ up /\ service \in Service
    /\ thread[t].request.service = service
    /\ thread'[t].pc = "waiting" /\ thread'[t].number = thread[t].number
    /\ thread'[t].request = thread[t].request /\ thread'[t].reply = thread[t].reply
    /\ thread'[t].alone = \A o \in Thread \ {t} : ~Asks(o, service)
    /\ \A o \in Thread \ {t} :
          /\ Keeps(o)
          /\ Asks(o, service) => ~thread'[o].alone
          /\ ~Asks(o, service) => thread'[o] = thread[o]
    /\ \A r \in Service \ {service} : queue'[r] = queue[r]
    /\ Len(queue'[service]) = Len(queue[service]) + 1
    /\ \A i \in Places(service) : queue'[service][i] = queue[service][i]
    /\ queue'[service][Len(queue[service]) + 1] = <<thread[t].number, thread[t].request>>
    /\ sure' = sure \ {service}
    /\ UNCHANGED <<calls, up, setting, view, accepted, told>>

\* What Send does.
LEMMA SendSpec ==
    ASSUME TypeOK, NEW t \in Thread, Send(t)
    PROVE  Sends(t, thread[t].request.service)
<1> DEFINE service == thread[t].request.service
           entry == <<thread[t].number, thread[t].request>>
           others == {o \in Thread \ {t} : /\ thread[o].pc = "waiting"
                                           /\ thread[o].request.service = service}
           step == [thread[t] EXCEPT !.pc = "waiting", !.alone = others = {}]
<1>1. /\ thread[t].pc = "bridged" /\ up /\ sure' = sure \ {service}
      /\ queue' = [queue EXCEPT ![service] = Append(queue[service], entry)]
      /\ thread' = [o \in Thread |->
             IF o = t THEN step
             ELSE IF o \in others THEN [thread[o] EXCEPT !.alone = FALSE]
             ELSE thread[o]]
      /\ UNCHANGED <<client, up, setting, view, accepted, told>>
  BY DEF Send
<1>2. /\ thread[t] \in Step /\ Busy(t) /\ service \in Service
      /\ entry \in Nat \X Request
  <2>1. thread[t] \in Step /\ Busy(t)
    BY <1>1, ThreadSpec DEF Busy
  <2>2. thread[t].number \in Nat /\ thread[t].request \in Request
    BY <2>1 DEF Step
  <2> QED BY <2>1, <2>2, RequestSpec
<1>3. queue[service] \in Seq(Nat \X Request)
  BY <1>2 DEF TypeOK
<1>4. /\ \A r \in Service \ {service} : queue'[r] = queue[r]
      /\ queue'[service] = Append(queue[service], entry)
  BY <1>1, <1>2 DEF TypeOK
<1>5. /\ Len(queue'[service]) = Len(queue[service]) + 1
      /\ \A i \in Places(service) : queue'[service][i] = queue[service][i]
      /\ queue'[service][Len(queue[service]) + 1] = entry
  <2> HIDE DEF service, entry
  <2> QED BY <1>2, <1>3, <1>4, AppendProperties DEF Places
<1>6. /\ step.pc = "waiting" /\ step.number = thread[t].number
      /\ step.request = thread[t].request /\ step.reply = thread[t].reply
      /\ step.alone = (others = {})
  BY <1>2 DEF Step
<1>7. \A o \in Thread : o \in others <=> o # t /\ Asks(o, service)
  BY DEF Asks
<1>8. (others = {}) = \A o \in Thread \ {t} : ~Asks(o, service)
  BY <1>7
<1>9. thread'[t] = step
  BY <1>1
<1>10. ASSUME NEW o \in Thread \ {t}
       PROVE  /\ Keeps(o)
              /\ Asks(o, service) => ~thread'[o].alone
              /\ ~Asks(o, service) => thread'[o] = thread[o]
  <2>1. CASE Asks(o, service)
    <3>1. thread[o] \in Step
      BY <2>1, ThreadSpec DEF Asks, Busy
    <3>2. thread'[o] = [thread[o] EXCEPT !.alone = FALSE]
      BY <1>1, <1>7, <2>1
    <3> QED BY <2>1, <3>1, <3>2 DEF Keeps, Step
  <2>2. CASE ~Asks(o, service)
    <3>1. thread'[o] = thread[o]
      BY <1>1, <1>7, <2>2
    <3> QED BY <2>2, <3>1 DEF Keeps
  <2> QED BY <2>1, <2>2
<1> HIDE DEF service, entry, others, step
<1> QED BY <1>1, <1>2, <1>4, <1>5, <1>6, <1>8, <1>9, <1>10
        DEF Sends, client, service, entry

\* The node answers the first request of a queue.
Serves(service, answer) ==
    /\ up /\ queue[service] # <<>>
    /\ answer \in Outcomes(queue[service][1][2])
    /\ \A t \in Thread :
          IF thread[t].pc = "waiting" /\ thread[t].number = NumberAt(service, 1)
          THEN thread'[t] = [thread[t] EXCEPT !.reply = answer]
          ELSE thread'[t] = thread[t]
    /\ \A r \in Service \ {service} : queue'[r] = queue[r]
    /\ Len(queue'[service]) = Len(queue[service]) - 1
    /\ \A i \in 1..(Len(queue[service]) - 1) : queue'[service][i] = queue[service][i + 1]
    /\ IF service \in Setting
       THEN setting' = [setting EXCEPT ![service] = answer[2]] /\ UNCHANGED accepted
       ELSE /\ accepted' = [accepted EXCEPT ![queue[service][1][2].value[1]] =
                               IF answer[1] THEN @ + 1 ELSE @]
            /\ UNCHANGED setting
    /\ UNCHANGED <<calls, up, view, told, sure>>

\* What Serve does.
LEMMA ServeSpec ==
    ASSUME TypeOK, NEW service \in Service, Serve(service)
    PROVE  \E answer : Serves(service, answer)
<1>1. queue[service] \in Seq(Nat \X Request) /\ queue[service] # <<>>
  BY DEF Serve, TypeOK
<1>2. Head(queue[service]) = queue[service][1]
  BY <1>1
<1> DEFINE number == Head(queue[service])[1]
           request == Head(queue[service])[2]
<1>3. PICK answer \in Outcomes(request) :
        /\ thread' = [t \in Thread |->
               IF thread[t].pc = "waiting" /\ thread[t].number = number
               THEN [thread[t] EXCEPT !.reply = answer] ELSE thread[t]]
        /\ IF service \in Setting
           THEN /\ setting' = [setting EXCEPT ![service] = answer[2]]
                /\ UNCHANGED accepted
           ELSE /\ accepted' = [accepted EXCEPT ![request.value[1]] =
                                   IF answer[1] THEN @ + 1 ELSE @]
                /\ UNCHANGED setting
  BY DEF Serve
<1>4. number = queue[service][1][1] /\ request = queue[service][1][2]
  BY <1>2
<1> HIDE DEF number, request
<1>5. /\ \A r \in Service \ {service} : queue'[r] = queue[r]
      /\ queue'[service] = Tail(queue[service])
      /\ up /\ UNCHANGED <<calls, up, view, told, sure>>
  BY DEF Serve, TypeOK, client
<1>6. /\ Len(queue'[service]) = Len(queue[service]) - 1
      /\ \A i \in 1..(Len(queue[service]) - 1) : queue'[service][i] = queue[service][i + 1]
  BY <1>1, <1>5, HeadTailProperties
<1>7. \A t \in Thread :
         IF thread[t].pc = "waiting" /\ thread[t].number = NumberAt(service, 1)
         THEN thread'[t] = [thread[t] EXCEPT !.reply = answer]
         ELSE thread'[t] = thread[t]
  BY <1>3, <1>4 DEF NumberAt
<1>8. Serves(service, answer)
  BY <1>1, <1>3, <1>5, <1>6, <1>7, <1>4 DEF Serves
<1> QED BY <1>8

\* Places of a queue are counted by natural numbers.
LEMMA PlacesSpec ==
    ASSUME TypeOK, NEW service \in Service
    PROVE  /\ Len(queue[service]) \in Nat
           /\ queue[service] # <<>> => Len(queue[service]) > 0
           /\ queue[service] = <<>> <=> Len(queue[service]) = 0
           /\ \A i \in Places(service) :
                 /\ i \in Nat \ {0} /\ i <= Len(queue[service])
                 /\ queue[service][i] \in Nat \X Request
<1>1. queue[service] \in Seq(Nat \X Request)
  BY DEF TypeOK
<1> QED BY <1>1, LenProperties, EmptySeq, ElementOfSeq DEF Places

-----------------------------------------------------------------------------
(* Numbers of requests                                                     *)

\* Ends and other steps of threads that stay with their requests.
LEMMA StaysKeepsNumbers ==
    ASSUME TypeOK, NumbersTell, \A t \in Thread : Stays(t) \/ ~Busy(t),
           \A t \in Thread : ~Busy(t) => thread'[t] = thread[t],
           UNCHANGED calls, UNCHANGED queue \/ queue' = [s \in Service |-> <<>>]
    PROVE  NumbersTell'
<1>1. \A t \in Thread : Busy(t)' =>
         /\ Busy(t)
         /\ thread'[t].pc = thread[t].pc \/ "waiting" \notin {thread'[t].pc, thread[t].pc}
         /\ thread'[t].number = thread[t].number
         /\ thread'[t].request = thread[t].request
         /\ thread'[t].reply = thread[t].reply
  BY DEF Stays, Busy
<1>2. \A s \in Service : Places(s)' \subseteq Places(s) /\
         \A i \in Places(s)' : queue'[s][i] = queue[s][i]
  BY DEF Places
<1>3. calls' = calls
  OBVIOUS
<1> QED BY <1>1, <1>2, <1>3 DEF NumbersTell, NumberAt

\* What a new HTTP request does to threads.
LEMMA BeginSpec ==
    ASSUME TypeOK, NEW t \in Thread, NEW request \in Request, Begin(t, request)
    PROVE  /\ ~Busy(t) /\ calls' = calls + 1
           /\ thread'[t].pc \in {"entered", "bridged"} /\ thread'[t].number = calls + 1
           /\ thread'[t].request = request /\ thread'[t].reply = <<>>
           /\ \A o \in Thread \ {t} : thread'[o] = thread[o]
           /\ UNCHANGED <<queue, up, setting, view, accepted, told, sure>>
<1> DEFINE step == [pc |-> IF request.from = "aba_service" THEN "entered" ELSE "bridged",
                    number |-> calls + 1, request |-> request, alone |-> TRUE,
                    reply |-> <<>>]
<1>1. step \in Step
  BY DEF TypeOK, Step
<1>2. Doing(t, step)
  BY DEF Begin
<1>3. step.pc \in {"entered", "bridged"} /\ step.number = calls + 1
      /\ step.request = request /\ step.reply = <<>>
  OBVIOUS
<1> HIDE DEF step
<1>4. \A o \in Thread : thread'[o] = IF o = t THEN step ELSE thread[o]
  BY <1>1, <1>2, DoingSpec
<1> QED BY <1>3, <1>4 DEF Begin, Busy, node, record

\* A new request has a new number.
LEMMA BeginKeepsNumbers ==
    ASSUME TypeOK, NumbersTell, NEW t \in Thread, NEW request \in Request,
           Begin(t, request)
    PROVE  NumbersTell'
<1>1. /\ ~Busy(t) /\ calls' = calls + 1 /\ calls \in Nat
      /\ thread'[t].pc \in {"entered", "bridged"} /\ thread'[t].number = calls + 1
      /\ thread'[t].request = request /\ thread'[t].reply = <<>>
      /\ \A o \in Thread \ {t} : thread'[o] = thread[o]
      /\ queue' = queue
  BY BeginSpec DEF TypeOK
<1>2. /\ \A o \in Thread : Busy(o) => thread[o].number \in 1..calls
      /\ \A s \in Service : \A i \in Places(s) : NumberAt(s, i) \in 1..calls
  BY DEF NumbersTell
<1>3. calls + 1 \notin 1..calls /\ calls + 1 \in 1..(calls + 1)
      /\ \A n \in 1..calls : n \in 1..(calls + 1)
  BY <1>1
<1>4. \A o \in Thread : Busy(o)' /\ o # t => Busy(o)
  BY <1>1 DEF Busy
<1>5. \A s \in Service : Places(s)' = Places(s)
         /\ \A i \in Places(s) : NumberAt(s, i)' = NumberAt(s, i)
  BY <1>1 DEF Places, NumberAt
<1>6. \A o \in Thread : Busy(o)' =>
         /\ thread'[o].number \in 1..calls'
         /\ thread'[o].pc # "waiting" => thread'[o].reply = <<>>
  BY <1>1, <1>2, <1>3, <1>4 DEF NumbersTell
<1>7. \A o, k \in Thread :
         Busy(o)' /\ Busy(k)' /\ thread'[o].number = thread'[k].number => o = k
  BY <1>1, <1>2, <1>3, <1>4 DEF NumbersTell
<1>8. ASSUME NEW s \in Service, NEW i \in Places(s)
      PROVE  /\ NumberAt(s, i)' \in 1..calls' /\ queue'[s][i][2].service = s
             /\ \A k \in Places(s) : NumberAt(s, i)' = NumberAt(s, k)' => i = k
             /\ \A o \in Thread : Busy(o)' /\ thread'[o].number = NumberAt(s, i)' =>
                   /\ thread'[o].pc = "waiting" /\ thread'[o].reply = <<>>
                   /\ thread'[o].request = queue'[s][i][2]
  BY <1>1, <1>2, <1>3, <1>4, <1>5 DEF NumbersTell
<1> QED BY <1>5, <1>6, <1>7, <1>8 DEF NumbersTell

\* A request that is sent was not in the queue before.
LEMMA SendKeepsNumbers ==
    ASSUME TypeOK, NumbersTell, NEW t \in Thread, NEW service, Sends(t, service)
    PROVE  NumbersTell'
<1> DEFINE last == Len(queue[service]) + 1
<1>1. /\ service \in Service /\ Busy(t) /\ thread[t].pc # "waiting"
      /\ thread[t].request.service = service /\ calls' = calls
  BY DEF Sends
<1>2. /\ Len(queue[service]) \in Nat /\ Len(queue'[service]) = last
      /\ Places(service)' = Places(service) \cup {last} /\ last \notin Places(service)
  BY <1>1, PlacesSpec DEF Sends, Places
<1>3. /\ \A i \in Places(service) : queue'[service][i] = queue[service][i]
      /\ queue'[service][last] = <<thread[t].number, thread[t].request>>
      /\ \A r \in Service \ {service} : queue'[r] = queue[r]
  BY DEF Sends
<1>4. \A o \in Thread :
         /\ Busy(o)' <=> Busy(o)
         /\ thread'[o].number = thread[o].number
         /\ thread'[o].request = thread[o].request /\ thread'[o].reply = thread[o].reply
         /\ thread'[o].pc = IF o = t THEN "waiting" ELSE thread[o].pc
  BY DEF Sends, Keeps, Busy
<1>5. \A s \in Service : \A i \in Places(s) : NumberAt(s, i) # thread[t].number
  BY <1>1 DEF NumbersTell
<1>6. /\ \A o \in Thread : Busy(o) /\ o # t => thread[o].number # thread[t].number
      /\ thread[t].number \in 1..calls /\ thread[t].reply = <<>>
  BY <1>1 DEF NumbersTell
<1>7. /\ \A o \in Thread : Busy(o)' =>
            /\ thread'[o].number \in 1..calls'
            /\ thread'[o].pc # "waiting" => thread'[o].reply = <<>>
      /\ \A o, k \in Thread :
            Busy(o)' /\ Busy(k)' /\ thread'[o].number = thread'[k].number => o = k
  BY <1>1, <1>4 DEF NumbersTell
<1>8. ASSUME NEW s \in Service, NEW i \in Places(s)'
      PROVE  /\ NumberAt(s, i)' \in 1..calls' /\ queue'[s][i][2].service = s
             /\ \A k \in Places(s)' : NumberAt(s, i)' = NumberAt(s, k)' => i = k
             /\ \A o \in Thread : Busy(o)' /\ thread'[o].number = NumberAt(s, i)' =>
                   /\ thread'[o].pc = "waiting" /\ thread'[o].reply = <<>>
                   /\ thread'[o].request = queue'[s][i][2]
  <2>1. ASSUME NEW k \in Places(s)
        PROVE  /\ queue'[s][k] = queue[s][k] /\ k \in Places(s)'
               /\ NumberAt(s, k)' \in 1..calls' /\ queue'[s][k][2].service = s
               /\ NumberAt(s, k)' # thread[t].number
               /\ \A h \in Places(s) : NumberAt(s, k)' = NumberAt(s, h)' => k = h
               /\ \A o \in Thread : Busy(o)' /\ thread'[o].number = NumberAt(s, k)' =>
                     /\ thread'[o].pc = "waiting" /\ thread'[o].reply = <<>>
                     /\ thread'[o].request = queue'[s][k][2]
    <3>1. queue'[s] = queue[s] \/ s = service
      BY <1>3
    <3>2. /\ \A h \in Places(s) : queue'[s][h] = queue[s][h] /\ h \in Places(s)'
          /\ \A h \in Places(s) : NumberAt(s, h)' = NumberAt(s, h)
      BY <1>2, <1>3, <3>1 DEF Places, NumberAt
    <3> QED BY <1>1, <1>4, <1>5, <3>2 DEF NumbersTell
  <2>2. CASE s # service
    <3>1. Places(s)' = Places(s)
      BY <1>3, <2>2 DEF Places
    <3> QED BY <2>1, <3>1
  <2>3. CASE s = service /\ i # last
    <3>1. i \in Places(s)
      BY <1>2, <2>3
    <3>2. ASSUME NEW k \in Places(s)', NumberAt(s, i)' = NumberAt(s, k)'
          PROVE  i = k
      <4>1. CASE k = last
        <5>1. NumberAt(s, k)' = thread[t].number
          BY <1>3, <2>3, <4>1 DEF NumberAt
        <5> QED BY <2>1, <3>1, <3>2, <5>1
      <4>2. CASE k # last
        <5>1. k \in Places(s)
          BY <1>2, <2>3, <4>2
        <5> QED BY <2>1, <3>1, <3>2, <5>1
      <4> QED BY <4>1, <4>2
    <3> QED BY <2>1, <3>1, <3>2
  <2>4. CASE s = service /\ i = last
    <3>1. NumberAt(s, i)' = thread[t].number /\ queue'[s][i][2] = thread[t].request
      BY <1>3, <2>4 DEF NumberAt
    <3>2. \A k \in Places(s)' : k # last => NumberAt(s, k)' # thread[t].number
      BY <1>2, <2>1, <2>4
    <3> QED BY <1>1, <1>4, <1>6, <2>4, <3>1, <3>2
  <2> QED BY <2>2, <2>3, <2>4
<1> QED BY <1>7, <1>8 DEF NumbersTell

\* The thread of a request: who is busy with the number at a place of a queue.
LEMMA NumberSpec ==
    ASSUME NumbersTell, NEW s \in Service, NEW i \in Places(s), NEW t \in Thread,
           Busy(t), thread[t].number = NumberAt(s, i)
    PROVE  /\ thread[t].pc = "waiting" /\ thread[t].reply = <<>>
           /\ thread[t].request = queue[s][i][2] /\ Asks(t, s)
           /\ \A o \in Thread : Busy(o) /\ thread[o].number = NumberAt(s, i) => o = t
BY DEF NumbersTell, Asks

\* What serving a request means for threads.
LEMMA ServesSpec ==
    ASSUME TypeOK, NEW service \in Service, NEW answer, Serves(service, answer),
           NEW t \in Thread
    PROVE  /\ thread'[t].pc = thread[t].pc /\ thread'[t].number = thread[t].number
           /\ Busy(t) =>
                 /\ thread'[t].request = thread[t].request
                 /\ thread'[t].alone = thread[t].alone
           /\ Busy(t)' <=> Busy(t)
           /\ IF thread[t].pc = "waiting" /\ thread[t].number = NumberAt(service, 1)
              THEN thread'[t].reply = answer ELSE thread'[t] = thread[t]
<1>1. CASE thread[t].pc = "waiting" /\ thread[t].number = NumberAt(service, 1)
  <2>1. thread[t] \in Step
    BY <1>1, ThreadSpec DEF Busy
  <2>2. thread'[t] = [thread[t] EXCEPT !.reply = answer]
    BY <1>1 DEF Serves
  <2> QED BY <1>1, <2>1, <2>2 DEF Step, Busy
<1>2. CASE ~(thread[t].pc = "waiting" /\ thread[t].number = NumberAt(service, 1))
  BY <1>2 DEF Serves, Busy
<1> QED BY <1>1, <1>2

\* A request that is answered leaves the queue.
LEMMA ServeKeepsNumbers ==
    ASSUME TypeOK, NumbersTell, NEW service \in Service, NEW answer,
           Serves(service, answer)
    PROVE  NumbersTell'
<1>1. /\ Len(queue[service]) \in Nat /\ Len(queue[service]) > 0 /\ 1 \in Places(service)
      /\ Len(queue'[service]) = Len(queue[service]) - 1 /\ calls' = calls
      /\ \A r \in Service \ {service} : queue'[r] = queue[r]
      /\ \A i \in 1..(Len(queue[service]) - 1) :
            queue'[service][i] = queue[service][i + 1]
  BY PlacesSpec DEF Serves, Places
<1>2. ASSUME NEW t \in Thread, Busy(t)'
      PROVE  /\ Busy(t) /\ thread'[t].number = thread[t].number
             /\ thread'[t].request = thread[t].request /\ thread'[t].pc = thread[t].pc
             /\ thread[t].number # NumberAt(service, 1) => thread'[t] = thread[t]
             /\ thread[t].pc # "waiting" => thread'[t] = thread[t]
  BY <1>2, ServesSpec
<1>3. /\ \A t \in Thread : Busy(t)' =>
            /\ thread'[t].number \in 1..calls'
            /\ thread'[t].pc # "waiting" => thread'[t].reply = <<>>
      /\ \A t, o \in Thread :
            Busy(t)' /\ Busy(o)' /\ thread'[t].number = thread'[o].number => t = o
  BY <1>1, <1>2 DEF NumbersTell
<1>4. ASSUME NEW s \in Service
      PROVE  \E d \in {0, 1} :
                /\ \A i \in Places(s)' :
                      /\ i + d \in Places(s) /\ queue'[s][i] = queue[s][i + d]
                      /\ i \in Nat
                /\ s = service => d = 1
  <2>1. CASE s = service
    <3>1. \A i \in Places(s)' : i + 1 \in Places(s) /\ queue'[s][i] = queue[s][i + 1]
                                /\ i \in Nat
      BY <1>1, <2>1 DEF Places
    <3> QED BY <2>1, <3>1
  <2>2. CASE s # service
    <3>1. Places(s)' = Places(s) /\ queue'[s] = queue[s]
      BY <1>1, <2>2 DEF Places
    <3>2. \A i \in Places(s) : i \in Nat /\ i + 0 = i
      BY PlacesSpec
    <3> QED BY <2>2, <3>1, <3>2
  <2> QED BY <2>1, <2>2
<1>5. ASSUME NEW s \in Service, NEW i \in Places(s)'
      PROVE  /\ NumberAt(s, i)' \in 1..calls' /\ queue'[s][i][2].service = s
             /\ \A k \in Places(s)' : NumberAt(s, i)' = NumberAt(s, k)' => i = k
             /\ \A t \in Thread : Busy(t)' /\ thread'[t].number = NumberAt(s, i)' =>
                   /\ thread'[t].pc = "waiting" /\ thread'[t].reply = <<>>
                   /\ thread'[t].request = queue'[s][i][2]
  <2>1. PICK d \in {0, 1} :
           /\ \A k \in Places(s)' :
                 /\ k + d \in Places(s) /\ queue'[s][k] = queue[s][k + d] /\ k \in Nat
           /\ s = service => d = 1
    BY <1>4
  <2>2. \A k \in Places(s)' : NumberAt(s, k)' = NumberAt(s, k + d)
    BY <2>1 DEF NumberAt
  <2>3. NumberAt(s, i + d) \in 1..calls /\ queue[s][i + d][2].service = s
    BY <2>1 DEF NumbersTell
  <2>4. ASSUME NEW k \in Places(s)', NumberAt(s, i)' = NumberAt(s, k)'
        PROVE  i = k
    <3>1. i + d = k + d
      BY <2>1, <2>2, <2>4 DEF NumbersTell
    <3> QED BY <2>1, <3>1
  <2>5. ASSUME NEW t \in Thread, Busy(t)', thread'[t].number = NumberAt(s, i)'
        PROVE  /\ thread'[t].pc = "waiting" /\ thread'[t].reply = <<>>
               /\ thread'[t].request = queue'[s][i][2]
    <3>1. Busy(t) /\ thread[t].number = NumberAt(s, i + d) /\ i + d \in Places(s)
      BY <1>2, <2>1, <2>2, <2>5
    <3>2. /\ thread[t].pc = "waiting" /\ thread[t].reply = <<>>
          /\ thread[t].request = queue[s][i + d][2] /\ Asks(t, s)
      BY <3>1, NumberSpec
    <3>3. thread[t].number # NumberAt(service, 1)
      <4>1. SUFFICES ASSUME thread[t].number = NumberAt(service, 1) PROVE FALSE
        OBVIOUS
      <4>2. s = service
        BY <1>1, <3>1, <3>2, <4>1, NumberSpec DEF Asks
      <4>3. i + d = 1
        BY <1>1, <3>1, <4>1, <4>2 DEF NumbersTell
      <4>4. i \in Nat \ {0}
        BY <2>1 DEF Places
      <4> QED BY <2>1, <4>2, <4>3, <4>4
    <3> QED BY <1>2, <2>1, <2>5, <3>2, <3>3
  <2> QED BY <1>1, <2>1, <2>2, <2>3, <2>4, <2>5
<1> QED BY <1>3, <1>5 DEF NumbersTell

-----------------------------------------------------------------------------
(* The books of callers and node                                           *)

\* Number n is that of a queued request to do job j, or of a busy thread.
Queued(n, j) ==
    \E i \in Places("submit_task") :
       /\ NumberAt("submit_task", i) = n
       /\ queue["submit_task"][i][2].value = <<j>>

Held(n) == \E t \in Thread : Busy(t) /\ thread[t].number = n

\* Thread t has the node's "yes" to job j but has not passed it on.
Expects(t, j) ==
    /\ thread[t].pc = "waiting" /\ thread[t].request.service = "submit_task"
    /\ thread[t].request.value = <<j>>
    /\ thread[t].reply # <<>> /\ thread[t].reply[1]

\* BooksBalance for one job.
Balanced(j) ==
    /\ told[j]["yes"] + Cardinality(Pending(j)) <= accepted[j]
    /\ accepted[j] + Cardinality(Orphans(j))
          <= told[j]["yes"] + told[j]["unclear"] + Cardinality(Pending(j))

\* What is counted is finite, and the books hold numbers.
LEMMA CountsSpec ==
    ASSUME TypeOK, NEW j \in Job
    PROVE  /\ IsFiniteSet(Pending(j)) /\ Cardinality(Pending(j)) \in Nat
           /\ IsFiniteSet(Orphans(j)) /\ Cardinality(Orphans(j)) \in Nat
           /\ told[j]["yes"] \in Nat /\ told[j]["unclear"] \in Nat
           /\ accepted[j] \in Nat
           /\ Pending(j) = {t \in Thread : Expects(t, j)}
           /\ Orphans(j) = {n \in 1..calls : Queued(n, j) /\ ~Held(n)}
<1>1. Pending(j) = {t \in Thread : Expects(t, j)}
  BY DEF Pending, Expects
<1>2. Orphans(j) = {n \in 1..calls : Queued(n, j) /\ ~Held(n)}
  BY DEF Orphans, Queued, Held
<1>3. IsFiniteSet(Pending(j)) /\ Cardinality(Pending(j)) \in Nat
  <2>1. Pending(j) \in SUBSET Thread
    BY <1>1
  <2>2. IsFiniteSet(Pending(j))
    BY <2>1, FS_Subset, CallAssumption
  <2> QED BY <2>2, FS_CardinalityType
<1>4. IsFiniteSet(Orphans(j)) /\ Cardinality(Orphans(j)) \in Nat
  <2>1. Orphans(j) \in SUBSET (1..calls) /\ calls \in Int
    BY <1>2 DEF TypeOK
  <2>2. IsFiniteSet(1..calls)
    BY <2>1, FS_Interval
  <2>3. IsFiniteSet(Orphans(j))
    BY <2>1, <2>2, FS_Subset
  <2> QED BY <2>3, FS_CardinalityType
<1>5. told[j]["yes"] \in Nat /\ told[j]["unclear"] \in Nat /\ accepted[j] \in Nat
  BY DEF TypeOK
<1> QED BY <1>1, <1>2, <1>3, <1>4, <1>5

\* The same, after a step.
LEMMA CountsSpecNext ==
    ASSUME TypeOK', NEW j \in Job
    PROVE  /\ Pending(j)' = {t \in Thread : Expects(t, j)'}
           /\ Orphans(j)' = {n \in 1..calls' : Queued(n, j)' /\ ~Held(n)'}
<1>1. Pending(j)' = {t \in Thread : Expects(t, j)'}
  BY DEF Pending, Expects
<1>2. Orphans(j)' = {n \in 1..calls' : Queued(n, j)' /\ ~Held(n)'}
  BY DEF Orphans, Queued, Held
<1> QED BY <1>1, <1>2

\* Numbers of queued requests were given out.
LEMMA QueuedSpec ==
    ASSUME TypeOK, NumbersTell, NEW n, NEW j, Queued(n, j)
    PROVE  n \in 1..calls
BY DEF NumbersTell, Queued, Service

\* A step that leaves what is on its way to and from the node as it is, or
\* loses requests, and writes nothing down.
LEMMA QuietKeepsBalance ==
    ASSUME TypeOK, TypeOK', NEW j \in Job, Balanced(j),
           told'[j] = told[j], accepted'[j] = accepted[j],
           \A t \in Thread : Expects(t, j)' <=> Expects(t, j),
           \A n \in 1..calls' :
              Queued(n, j)' /\ ~Held(n)' => n \in 1..calls /\ Queued(n, j) /\ ~Held(n)
    PROVE  Balanced(j)'
<1>1. Pending(j)' = Pending(j)
  BY CountsSpec, CountsSpecNext
<1>2. Orphans(j)' \in SUBSET Orphans(j)
  BY CountsSpec, CountsSpecNext
<1>3. Cardinality(Orphans(j)') <= Cardinality(Orphans(j))
      /\ Cardinality(Orphans(j)') \in Nat
  <2>1. IsFiniteSet(Orphans(j)) /\ IsFiniteSet(Orphans(j)')
    BY <1>2, CountsSpec, FS_Subset
  <2> QED BY <1>2, <2>1, FS_Subset, FS_CardinalityType
<1>4. /\ Cardinality(Pending(j)) \in Nat /\ Cardinality(Orphans(j)) \in Nat
      /\ told[j]["yes"] \in Nat /\ told[j]["unclear"] \in Nat /\ accepted[j] \in Nat
  BY CountsSpec
<1> QED BY <1>1, <1>3, <1>4 DEF Balanced

\* The end of a request: the answer is written down, or was "no".
LEMMA FinishKeepsBalance ==
    ASSUME TypeOK, TypeOK', NumbersTell, NEW j \in Job, Balanced(j),
           NEW t \in Thread, NEW answer \in {"yes", "unclear", "no"},
           Finishes(t, answer),
           answer = "yes" =>
              thread[t].pc = "waiting" /\ thread[t].reply # <<>> /\ thread[t].reply[1],
           answer = "no" =>
              \/ thread[t].pc # "waiting"
              \/ thread[t].reply # <<>> /\ ~thread[t].reply[1]
    PROVE  Balanced(j)'
<1> DEFINE n == thread[t].number
<1>1. /\ Busy(t) /\ thread'[t] = Free /\ calls' = calls /\ queue' = queue
      /\ \A o \in Thread \ {t} : thread'[o] = thread[o]
      /\ accepted'[j] = accepted[j] /\ n \in 1..calls
  BY DEF Finishes, node, NumbersTell
<1>2. \A a \in Said : told'[j][a] = IF BusyWith(t, j) /\ answer = a
                                    THEN told[j][a] + 1 ELSE told[j][a]
  BY FinishesSpec
<1>3. \A o \in Thread : Expects(o, j)' <=> Expects(o, j) /\ o # t
  BY <1>1 DEF Expects, Free
<1>4. \A k \in 1..calls : /\ Queued(k, j)' <=> Queued(k, j)
                          /\ Held(k)' <=> Held(k) /\ k # n
  <2>1. \A k \in 1..calls : Queued(k, j)' <=> Queued(k, j)
    BY <1>1 DEF Queued, Places, NumberAt
  <2>2. \A o \in Thread : Busy(o)' <=> Busy(o) /\ o # t
    BY <1>1 DEF Busy, Free
  <2>3. \A o \in Thread : Busy(o) /\ o # t => thread[o].number # n
    BY <1>1 DEF NumbersTell
  <2>4. \A k \in 1..calls : Held(k)' <=> Held(k) /\ k # n
    BY <1>1, <2>2, <2>3 DEF Held
  <2> QED BY <2>1, <2>4
<1>5. Queued(n, j) => BusyWith(t, j) /\ thread[t].pc = "waiting" /\ thread[t].reply = <<>>
  <2>1. ASSUME Queued(n, j)
        PROVE  BusyWith(t, j) /\ thread[t].pc = "waiting" /\ thread[t].reply = <<>>
    <3>1. PICK i \in Places("submit_task") :
             /\ NumberAt("submit_task", i) = n
             /\ queue["submit_task"][i][2].value = <<j>>
      BY <2>1 DEF Queued
    <3>2. "submit_task" \in Service
      BY DEF Service
    <3>3. /\ thread[t].pc = "waiting" /\ thread[t].reply = <<>>
          /\ thread[t].request = queue["submit_task"][i][2] /\ Asks(t, "submit_task")
      BY <1>1, <3>1, <3>2, NumberSpec
    <3> QED BY <1>1, <3>1, <3>3 DEF BusyWith, Asks
  <2> QED BY <2>1
<1>6. Expects(t, j) => BusyWith(t, j) /\ thread[t].reply # <<>> /\ thread[t].reply[1]
  BY <1>1 DEF Expects, BusyWith
<1>7. /\ Pending(j)' = Pending(j) \ {t}
      /\ Orphans(j)' = Orphans(j) \cup (IF Queued(n, j) THEN {n} ELSE {})
      /\ n \notin Orphans(j)
  <2>1. Held(n)
    BY <1>1 DEF Held
  <2>2. Pending(j)' = Pending(j) \ {t}
    BY <1>3, CountsSpec, CountsSpecNext
  <2>3. Orphans(j) = {k \in 1..calls : Queued(k, j) /\ ~Held(k)}
    BY CountsSpec
  <2>4. Orphans(j)' = {k \in 1..calls : Queued(k, j) /\ ~(Held(k) /\ k # n)}
    BY <1>1, <1>4, CountsSpecNext
  <2> HIDE DEF n
  <2> QED BY <1>1, <2>1, <2>2, <2>3, <2>4
<1>8. /\ IsFiniteSet(Pending(j)) /\ Cardinality(Pending(j)) \in Nat
      /\ IsFiniteSet(Orphans(j)) /\ Cardinality(Orphans(j)) \in Nat
      /\ told[j]["yes"] \in Nat /\ told[j]["unclear"] \in Nat /\ accepted[j] \in Nat
      /\ t \in Pending(j) <=> Expects(t, j)
  BY CountsSpec
<1>9. /\ Cardinality(Pending(j)') = IF Expects(t, j) THEN Cardinality(Pending(j)) - 1
                                    ELSE Cardinality(Pending(j))
      /\ Cardinality(Orphans(j)') = IF Queued(n, j) THEN Cardinality(Orphans(j)) + 1
                                    ELSE Cardinality(Orphans(j))
  <2>1. Cardinality(Pending(j) \ {t}) = IF t \in Pending(j)
             THEN Cardinality(Pending(j)) - 1 ELSE Cardinality(Pending(j))
    BY <1>8, FS_RemoveElement
  <2>2. Cardinality(Orphans(j) \cup {n}) = Cardinality(Orphans(j)) + 1
    BY <1>7, <1>8, FS_AddElement
  <2>3. Orphans(j) \cup {} = Orphans(j)
    OBVIOUS
  <2> HIDE DEF n
  <2> QED BY <1>7, <1>8, <2>1, <2>2, <2>3
<1> HIDE DEF n
<1>10. PICK y \in Nat : y = told[j]["yes"]
  BY <1>8
<1>11. PICK u \in Nat : u = told[j]["unclear"]
  BY <1>8
<1>12. PICK a \in Nat : a = accepted[j]
  BY <1>8
<1>13. PICK p \in Nat : p = Cardinality(Pending(j))
  BY <1>8
<1>14. PICK o \in Nat : o = Cardinality(Orphans(j))
  BY <1>8
<1>15. y + p <= a /\ a + o <= y + u + p
  BY <1>10, <1>11, <1>12, <1>13, <1>14 DEF Balanced
<1>16. ASSUME NEW dy \in {0, 1}, NEW du \in {0, 1}, NEW dp \in {0, 1}, NEW do \in {0, 1},
              told'[j]["yes"] = y + dy, told'[j]["unclear"] = u + du,
              Cardinality(Pending(j)') = p - dp, Cardinality(Orphans(j)') = o + do,
              dy <= dp, dp + do <= dy + du
       PROVE  Balanced(j)'
  <2>1. (y + dy) + (p - dp) <= a
    BY <1>15, <1>16
  <2>2. a + (o + do) <= (y + dy) + (u + du) + (p - dp)
    BY <1>15, <1>16
  <2> QED BY <1>1, <1>12, <1>16, <2>1, <2>2 DEF Balanced
<1>17. /\ Cardinality(Pending(j)') = IF Expects(t, j) THEN p - 1 ELSE p
       /\ Cardinality(Orphans(j)') = IF Queued(n, j) THEN o + 1 ELSE o
  BY <1>9, <1>13, <1>14
<1>18. CASE ~BusyWith(t, j)
  <2>1. told'[j]["yes"] = told[j]["yes"] /\ told'[j]["unclear"] = told[j]["unclear"]
    BY <1>2, <1>18 DEF Said
  <2>2. ~Expects(t, j) /\ ~Queued(n, j)
    BY <1>5, <1>6, <1>18
  <2> QED BY <1>1, <1>8, <1>9, <2>1, <2>2 DEF Balanced
<1>19. CASE BusyWith(t, j) /\ answer = "unclear"
  <2>1. told'[j]["yes"] = y + 0 /\ told'[j]["unclear"] = u + 1
    BY <1>2, <1>19, <1>10, <1>11 DEF Said
  <2>2. CASE Expects(t, j)
    <3>1. Cardinality(Pending(j)') = p - 1 /\ Cardinality(Orphans(j)') = o + 0
      BY <1>5, <1>6, <1>17, <2>2
    <3> QED BY <1>16, <2>1, <3>1
  <2>3. CASE ~Expects(t, j) /\ Queued(n, j)
    <3>1. Cardinality(Pending(j)') = p - 0 /\ Cardinality(Orphans(j)') = o + 1
      BY <1>17, <2>3
    <3> QED BY <1>16, <2>1, <3>1
  <2>4. CASE ~Expects(t, j) /\ ~Queued(n, j)
    <3>1. Cardinality(Pending(j)') = p - 0 /\ Cardinality(Orphans(j)') = o + 0
      BY <1>17, <2>4
    <3> QED BY <1>16, <2>1, <3>1
  <2> QED BY <2>2, <2>3, <2>4
<1>20. CASE BusyWith(t, j) /\ answer = "yes"
  <2>1. told'[j]["yes"] = y + 1 /\ told'[j]["unclear"] = u + 0
    BY <1>2, <1>20, <1>10, <1>11 DEF Said
  <2>2. Expects(t, j) /\ ~Queued(n, j)
    BY <1>5, <1>20 DEF Expects, BusyWith
  <2>3. Cardinality(Pending(j)') = p - 1 /\ Cardinality(Orphans(j)') = o + 0
    BY <1>17, <2>2
  <2> QED BY <1>16, <2>1, <2>3
<1>21. CASE BusyWith(t, j) /\ answer = "no"
  <2>1. told'[j]["yes"] = y + 0 /\ told'[j]["unclear"] = u + 0
    BY <1>2, <1>21, <1>10, <1>11 DEF Said
  <2>2. ~Expects(t, j) /\ ~Queued(n, j)
    BY <1>5, <1>21 DEF Expects
  <2>3. Cardinality(Pending(j)') = p - 0 /\ Cardinality(Orphans(j)') = o + 0
    BY <1>17, <2>2
  <2> QED BY <1>16, <2>1, <2>3
<1> QED BY <1>18, <1>19, <1>20, <1>21

\* What the node accepts is a request nobody waits for any more, or the "yes"
\* is on its way to the one who waits.
LEMMA ServeKeepsBalance ==
    ASSUME TypeOK, TypeOK', NumbersTell, NEW j \in Job, Balanced(j),
           NEW service \in Service, NEW answer, Serves(service, answer)
    PROVE  Balanced(j)'
<1> DEFINE n == NumberAt(service, 1)
           request == queue[service][1][2]
<1>1. /\ Len(queue[service]) \in Nat /\ 1 \in Places(service)
      /\ queue[service][1] \in Nat \X Request
      /\ Len(queue'[service]) = Len(queue[service]) - 1 /\ calls' = calls
      /\ told' = told
      /\ \A r \in Service \ {service} : queue'[r] = queue[r]
      /\ \A i \in 1..(Len(queue[service]) - 1) :
            queue'[service][i] = queue[service][i + 1]
  BY PlacesSpec DEF Serves, Places
<1>2. /\ request \in Request /\ request.service = service
      /\ n \in 1..calls
      /\ \A i \in Places(service) : NumberAt(service, i) = n => i = 1
  BY <1>1 DEF NumbersTell
<1>3. answer \in BOOLEAN \X Seq(Name) /\ answer # <<>> /\ answer[1] \in BOOLEAN
  <2>1. answer \in BOOLEAN \X Seq(Name)
    BY <1>2, OutcomesSpec DEF Serves
  <2>2. PICK ok \in BOOLEAN, v \in Seq(Name) : answer = <<ok, v>>
    BY <2>1
  <2>3. <<ok, v>> # <<>> /\ <<ok, v>>[1] \in BOOLEAN
    OBVIOUS
  <2> QED BY <2>1, <2>2, <2>3
<1>4. ASSUME NEW t \in Thread
      PROVE  /\ Busy(t)' <=> Busy(t)
             /\ thread'[t].number = thread[t].number
             /\ ~(Busy(t) /\ thread[t].number = n) => (Expects(t, j)' <=> Expects(t, j))
             /\ Busy(t) /\ thread[t].number = n =>
                   /\ thread[t].request = request /\ ~Expects(t, j)
                   /\ Expects(t, j)' <=> /\ service = "submit_task"
                                         /\ request.value = <<j>> /\ answer[1]
  <2>1. /\ Busy(t)' <=> Busy(t)
        /\ thread'[t].number = thread[t].number
        /\ thread'[t].pc = thread[t].pc
        /\ Busy(t) => thread'[t].request = thread[t].request
        /\ IF thread[t].pc = "waiting" /\ thread[t].number = n
           THEN thread'[t].reply = answer ELSE thread'[t] = thread[t]
    BY ServesSpec
  <2>2. CASE Busy(t) /\ thread[t].number = n
    <3>1. thread[t].pc = "waiting" /\ thread[t].reply = <<>> /\ thread[t].request = request
      BY <1>1, <2>2, NumberSpec
    <3>2. thread'[t].reply = answer /\ thread'[t].request = request
      BY <2>1, <2>2, <3>1
    <3>3. Expects(t, j)' <=> service = "submit_task" /\ request.value = <<j>> /\ answer[1]
      BY <1>2, <1>3, <2>1, <3>1, <3>2 DEF Expects
    <3> QED BY <2>1, <2>2, <3>1, <3>3 DEF Expects
  <2>3. CASE ~(Busy(t) /\ thread[t].number = n)
    <3>1. thread'[t] = thread[t]
      BY <2>1, <2>3 DEF Busy
    <3> QED BY <2>1, <2>3, <3>1 DEF Expects
  <2> QED BY <2>2, <2>3
<1>5. \A k : Held(k)' <=> Held(k)
  BY <1>4 DEF Held
<1>6. \A k : Queued(k, j)' <=>
                Queued(k, j) /\ ~(service = "submit_task" /\ k = n)
  <2>1. CASE service # "submit_task"
    BY <1>1, <2>1 DEF Queued, Places, NumberAt, Service
  <2>2. CASE service = "submit_task"
    <3>1. ASSUME NEW k, Queued(k, j)'
          PROVE  Queued(k, j) /\ k # n
      <4>1. PICK i \in Places(service)' :
               NumberAt(service, i)' = k /\ queue'[service][i][2].value = <<j>>
        BY <2>2, <3>1 DEF Queued
      <4>2. /\ i \in 1..(Len(queue[service]) - 1) /\ i + 1 \in Places(service)
            /\ i + 1 # 1
        BY <1>1, <4>1 DEF Places
      <4>3. queue'[service][i] = queue[service][i + 1]
        BY <1>1, <4>2
      <4>4. NumberAt(service, i + 1) = k /\ queue[service][i + 1][2].value = <<j>>
        BY <4>1, <4>3 DEF NumberAt
      <4> QED BY <1>2, <2>2, <4>2, <4>4 DEF Queued
    <3>2. ASSUME NEW k, Queued(k, j), k # n
          PROVE  Queued(k, j)'
      <4>1. PICK i \in Places(service) :
               NumberAt(service, i) = k /\ queue[service][i][2].value = <<j>>
        BY <2>2, <3>2 DEF Queued
      <4>2. i # 1
        BY <3>2, <4>1
      <4>3. /\ i - 1 \in 1..(Len(queue[service]) - 1) /\ i - 1 \in Places(service)'
            /\ (i - 1) + 1 = i
        BY <1>1, <4>1, <4>2 DEF Places
      <4>4. queue'[service][i - 1] = queue[service][i]
        BY <1>1, <4>3
      <4>5. NumberAt(service, i - 1)' = k /\ queue'[service][i - 1][2].value = <<j>>
        BY <4>1, <4>4 DEF NumberAt
      <4> QED BY <2>2, <4>3, <4>5 DEF Queued
    <3> QED BY <2>2, <3>1, <3>2
  <2> QED BY <2>1, <2>2
<1>7. Queued(n, j) /\ service = "submit_task" => request.value = <<j>>
  <2>1. ASSUME Queued(n, j), service = "submit_task"
        PROVE  request.value = <<j>>
    <3>1. PICK i \in Places(service) :
             NumberAt(service, i) = n /\ queue[service][i][2].value = <<j>>
      BY <2>1 DEF Queued
    <3> QED BY <1>2, <3>1
  <2> QED BY <2>1
<1> HIDE DEF n, request
<1>8. CASE service # "submit_task" \/ request.value # <<j>>
  <2>1. accepted'[j] = accepted[j]
    <3>1. CASE service # "submit_task"
      BY <3>1 DEF Serves, Service, Setting
    <3>2. CASE service = "submit_task"
      <4>1. PICK k \in Job : request.value = <<k>> /\ request.value[1] = k
        BY <1>2, <3>2, RequestSpec
      <4>2. k # j
        BY <1>8, <3>2, <4>1
      <4>3. accepted' = [accepted EXCEPT ![k] = IF answer[1] THEN @ + 1 ELSE @]
        BY <3>2, <4>1 DEF Serves, Setting, request
      <4> QED BY <4>2, <4>3 DEF TypeOK
    <3> QED BY <3>1, <3>2
  <2>2. \A t \in Thread : Expects(t, j)' <=> Expects(t, j)
    BY <1>4, <1>8
  <2>3. \A k \in 1..calls' :
           Queued(k, j)' /\ ~Held(k)' => k \in 1..calls /\ Queued(k, j) /\ ~Held(k)
    BY <1>1, <1>5, <1>6
  <2> QED BY <1>1, <2>1, <2>2, <2>3, QuietKeepsBalance
<1>9. CASE service = "submit_task" /\ request.value = <<j>>
  <2>1. accepted'[j] = IF answer[1] THEN accepted[j] + 1 ELSE accepted[j]
    <3>1. accepted' = [accepted EXCEPT ![j] = IF answer[1] THEN @ + 1 ELSE @]
      <4>1. request.value[1] = j
        BY <1>9
      <4> QED BY <1>9, <4>1 DEF Serves, Setting, request
    <3> QED BY <3>1 DEF TypeOK
  <2>2. /\ IsFiniteSet(Pending(j)) /\ Cardinality(Pending(j)) \in Nat
        /\ IsFiniteSet(Orphans(j)) /\ Cardinality(Orphans(j)) \in Nat
        /\ told[j]["yes"] \in Nat /\ told[j]["unclear"] \in Nat /\ accepted[j] \in Nat
        /\ Pending(j) = {t \in Thread : Expects(t, j)}
        /\ Orphans(j) = {k \in 1..calls : Queued(k, j) /\ ~Held(k)}
    BY CountsSpec
  <2>3. PICK y \in Nat : y = told[j]["yes"]
    BY <2>2
  <2>4. PICK u \in Nat : u = told[j]["unclear"]
    BY <2>2
  <2>5. PICK a \in Nat : a = accepted[j]
    BY <2>2
  <2>6. PICK p \in Nat : p = Cardinality(Pending(j))
    BY <2>2
  <2>7. PICK o \in Nat : o = Cardinality(Orphans(j))
    BY <2>2
  <2>8. y + p <= a /\ a + o <= y + u + p
    BY <2>3, <2>4, <2>5, <2>6, <2>7 DEF Balanced
  <2>9. ASSUME NEW da \in {0, 1}, NEW dp \in {0, 1}, NEW do \in {0, 1},
               accepted'[j] = a + da, Cardinality(Pending(j)') = p + dp,
               Cardinality(Orphans(j)') = o - do, dp <= da, da <= do + dp
        PROVE  Balanced(j)'
    <3>1. y + (p + dp) <= a + da
      BY <2>8, <2>9
    <3>2. (a + da) + (o - do) <= y + u + (p + dp)
      BY <2>8, <2>9
    <3>3. told'[j]["yes"] = y /\ told'[j]["unclear"] = u
      BY <1>1, <2>3, <2>4
    <3> QED BY <2>9, <3>1, <3>2, <3>3 DEF Balanced
  <2>10. CASE Held(n)
    <3>1. PICK t \in Thread : Busy(t) /\ thread[t].number = n
      BY <2>10 DEF Held
    <3>2. \A k \in Thread : Busy(k) /\ thread[k].number = n => k = t
      BY <3>1 DEF NumbersTell
    <3>3. Orphans(j)' = Orphans(j)
      BY <1>1, <1>5, <1>6, <2>2, <2>10, CountsSpecNext
    <3>4. Pending(j)' = IF answer[1] THEN Pending(j) \cup {t} ELSE Pending(j)
      <4>1. \A k \in Thread : Expects(k, j)' <=> Expects(k, j) \/ (k = t /\ answer[1])
        BY <1>4, <1>9, <3>1, <3>2
      <4> QED BY <2>2, <3>1, <4>1, CountsSpecNext
    <3>5. t \notin Pending(j)
      BY <1>4, <2>2, <3>1
    <3>6. CASE answer[1]
      <4>1. Cardinality(Pending(j)') = p + 1
        BY <2>2, <2>6, <3>4, <3>5, <3>6, FS_AddElement
      <4>2. accepted'[j] = a + 1 /\ Cardinality(Orphans(j)') = o - 0
        BY <2>1, <2>5, <2>7, <3>3, <3>6
      <4> QED BY <2>9, <4>1, <4>2
    <3>7. CASE ~answer[1]
      <4>1. accepted'[j] = a + 0 /\ Cardinality(Orphans(j)') = o - 0
            /\ Cardinality(Pending(j)') = p + 0
        BY <2>1, <2>5, <2>6, <2>7, <3>3, <3>4, <3>7
      <4> QED BY <2>9, <4>1
    <3> QED BY <3>6, <3>7
  <2>11. CASE ~Held(n)
    <3>1. Pending(j)' = Pending(j)
      <4>1. \A t \in Thread : Expects(t, j)' <=> Expects(t, j)
        BY <1>4, <2>11 DEF Held
      <4> QED BY <2>2, <4>1, CountsSpecNext
    <3>2. Orphans(j)' = Orphans(j) \ {n}
      BY <1>1, <1>5, <1>6, <1>9, <2>2, CountsSpecNext
    <3>3. n \in Orphans(j)
      <4>1. Queued(n, j)
        BY <1>1, <1>9 DEF Queued, n, request
      <4> QED BY <1>2, <2>2, <2>11, <4>1
    <3>4. Cardinality(Orphans(j)') = o - 1
      BY <2>2, <2>7, <3>2, <3>3, FS_RemoveElement
    <3>5. Cardinality(Pending(j)') = p + 0
      BY <2>6, <3>1
    <3>6. PICK da \in {0, 1} : accepted'[j] = a + da
      BY <2>1, <2>5
    <3>7. 0 <= da /\ da <= 1 + 0
      OBVIOUS
    <3> QED BY <2>9, <3>4, <3>5, <3>6, <3>7
  <2> QED BY <2>10, <2>11
<1> QED BY <1>8, <1>9

\* What Crash and Start leave of the threads.
LEMMA NodeStepSpec ==
    ASSUME TypeOK, Crash \/ Start, NEW t \in Thread
    PROVE  /\ Keeps(t)
           /\ ~Busy(t) => thread'[t] = thread[t]
           /\ thread'[t].pc = "waiting" => Start \/ ~thread'[t].alone
           /\ Start => thread'[t] = thread[t]
           /\ UNCHANGED <<calls, accepted, told>>
<1>1. CASE Start
  BY <1>1 DEF Start, Keeps, client, record
<1>2. CASE Crash
  <2>1. /\ thread' = [k \in Thread |-> IF thread[k].pc = "waiting"
                                       THEN [thread[k] EXCEPT !.alone = FALSE] ELSE thread[k]]
        /\ UNCHANGED <<calls, accepted, told>>
    BY <1>2 DEF Crash, client
  <2>2. CASE thread[t].pc = "waiting"
    <3>1. thread[t] \in Step /\ thread'[t] = [thread[t] EXCEPT !.alone = FALSE]
      BY <2>1, <2>2, ThreadSpec DEF Busy
    <3>2. Keeps(t) /\ ~thread'[t].alone
      BY <3>1 DEF Step, Keeps
    <3>3. ~Start
      BY <1>2 DEF Crash, Start
    <3> QED BY <2>1, <2>2, <3>2, <3>3 DEF Busy
  <2>3. CASE thread[t].pc # "waiting"
    <3>1. thread'[t] = thread[t] /\ ~Start
      BY <1>2, <2>1, <2>3 DEF Crash, Start
    <3> QED BY <2>1, <2>3, <3>1 DEF Keeps
  <2> QED BY <2>2, <2>3
<1> QED BY <1>1, <1>2

\* Numbers stay apart, whatever happens.
LEMMA NumbersStep ==
    ASSUME TypeOK, NumbersTell, Next
    PROVE  NumbersTell'
<1>1. ASSUME NEW t \in Thread, Handle(t)
      PROVE  NumbersTell'
  <2>1. CASE Send(t)
    BY <2>1, SendSpec, SendKeepsNumbers
  <2>2. ASSUME \/ Moves(t)
               \/ \E answer : Finishes(t, answer)
        PROVE  NumbersTell'
    <3>1. UNCHANGED <<calls, queue>> /\ Busy(t)
      BY <2>2 DEF Moves, Finishes, node
    <3>2. Stays(t)
      BY <2>2 DEF Moves, Finishes, Stays, Free
    <3>3. \A o \in Thread \ {t} : thread'[o] = thread[o]
      BY <2>2 DEF Moves, Finishes
    <3>4. \A o \in Thread : Stays(o) \/ ~Busy(o)
      BY <3>2, <3>3 DEF Stays, Busy
    <3> QED BY <3>1, <3>3, <3>4, StaysKeepsNumbers
  <2> QED BY <1>1, <2>1, <2>2, HandleSpec
<1>2. ASSUME NEW t \in Thread, NEW request \in Request, Begin(t, request)
      PROVE  NumbersTell'
  BY <1>2, BeginKeepsNumbers
<1>3. ASSUME NEW s \in Service, Serve(s)
      PROVE  NumbersTell'
  BY <1>3, ServeSpec, ServeKeepsNumbers
<1>4. CASE Crash \/ Start
  <2>1. \A t \in Thread : Stays(t) \/ ~Busy(t)
    BY <1>4, NodeStepSpec DEF Keeps, Stays, Busy
  <2>2. \A t \in Thread : ~Busy(t) => thread'[t] = thread[t]
    BY <1>4, NodeStepSpec
  <2>3. UNCHANGED calls /\ (UNCHANGED queue \/ queue' = [s \in Service |-> <<>>])
    BY <1>4 DEF Crash, Start, client
  <2> QED BY <2>1, <2>2, <2>3, StaysKeepsNumbers
<1> QED BY <1>1, <1>2, <1>3, <1>4 DEF Next

\* The books stay balanced, whatever happens.
LEMMA BalanceStep ==
    ASSUME TypeOK, TypeOK', NumbersTell, BooksBalance, Next
    PROVE  BooksBalance'
<1> SUFFICES ASSUME NEW j \in Job
             PROVE  Balanced(j)'
  BY DEF BooksBalance, Balanced
<1>1. Balanced(j)
  BY DEF BooksBalance, Balanced
<1>2. "submit_task" \in Service
  BY DEF Service
<1>3. ASSUME NEW t \in Thread, Handle(t)
      PROVE  Balanced(j)'
  <2>1. CASE Send(t)
    <3>1. PICK service : Sends(t, service)
      BY <2>1, SendSpec
    <3>2. thread[t].reply = <<>> /\ service \in Service /\ calls' = calls
      BY <3>1 DEF Sends, NumbersTell
    <3>3. \A o \in Thread : Expects(o, j)' <=> Expects(o, j)
      BY <3>1, <3>2 DEF Sends, Keeps, Expects
    <3>4. \A n : Held(n)' <=> Held(n)
      BY <3>1 DEF Sends, Keeps, Held, Busy
    <3>5. \A n : Queued(n, j)' => Queued(n, j) \/ n = thread[t].number
      <4>1. CASE service # "submit_task"
        BY <1>2, <3>1, <4>1 DEF Sends, Queued, Places, NumberAt
      <4>2. CASE service = "submit_task"
        <5>1. /\ Len(queue[service]) \in Nat
              /\ Len(queue'[service]) = Len(queue[service]) + 1
              /\ \A i \in Places(service) : queue'[service][i] = queue[service][i]
              /\ queue'[service][Len(queue[service]) + 1]
                    = <<thread[t].number, thread[t].request>>
          BY <3>1, <3>2, PlacesSpec DEF Sends
        <5>2. \A i \in Places(service)' :
                 i \in Places(service) \/ i = Len(queue[service]) + 1
          BY <5>1 DEF Places
        <5> QED BY <4>2, <5>1, <5>2 DEF Queued, NumberAt
      <4> QED BY <4>1, <4>2
    <3>6. Held(thread[t].number)
      BY <3>1 DEF Sends, Held
    <3>7. told' = told /\ accepted' = accepted
      BY <3>1 DEF Sends
    <3> QED BY <1>1, <3>2, <3>3, <3>4, <3>5, <3>6, <3>7, QuietKeepsBalance
  <2>2. CASE Moves(t)
    <3>1. UNCHANGED <<calls, queue, told, accepted>>
      BY <2>2 DEF Moves, node, record
    <3>2. \A o \in Thread : Expects(o, j)' <=> Expects(o, j)
      BY <2>2 DEF Moves, Expects
    <3>3. \A n : Held(n)' <=> Held(n)
      <4>1. Busy(t)' /\ Busy(t)
        BY <2>2 DEF Moves, Busy, Step
      <4> QED BY <2>2, <4>1 DEF Moves, Held, Busy
    <3>4. \A n : Queued(n, j)' <=> Queued(n, j)
      BY <3>1 DEF Queued, Places, NumberAt
    <3> QED BY <1>1, <3>1, <3>2, <3>3, <3>4, QuietKeepsBalance
  <2>3. CASE /\ Finishes(t, "no") \/ Finishes(t, "unclear")
             /\ thread[t].pc \in {"starting", "bridged"}
    BY <1>1, <2>3, FinishKeepsBalance
  <2>4. CASE Finishes(t, "unclear")
    BY <1>1, <2>4, FinishKeepsBalance
  <2>5. CASE /\ Answered(t) /\ thread[t].reply # <<>>
             /\ Finishes(t, IF thread[t].reply[1] THEN "yes" ELSE "no")
    <3>1. thread[t].pc = "waiting"
      BY <2>5 DEF Answered
    <3>2. CASE thread[t].reply[1]
      BY <1>1, <2>5, <3>1, <3>2, FinishKeepsBalance
    <3>3. CASE ~thread[t].reply[1]
      BY <1>1, <2>5, <3>1, <3>3, FinishKeepsBalance
    <3> QED BY <3>2, <3>3
  <2> QED BY <1>3, <2>1, <2>2, <2>3, <2>4, <2>5, HandleSpec
<1>4. ASSUME NEW t \in Thread, NEW request \in Request, Begin(t, request)
      PROVE  Balanced(j)'
  <2>1. /\ ~Busy(t) /\ calls' = calls + 1 /\ calls \in Nat
        /\ thread'[t].pc \in {"entered", "bridged"} /\ thread'[t].number = calls + 1
        /\ \A o \in Thread \ {t} : thread'[o] = thread[o]
        /\ UNCHANGED <<queue, accepted, told>>
    BY <1>4, BeginSpec DEF TypeOK
  <2>2. \A o \in Thread : Expects(o, j)' <=> Expects(o, j)
    BY <2>1 DEF Expects, Busy
  <2>3. \A n : Queued(n, j)' <=> Queued(n, j)
    BY <2>1 DEF Queued, Places, NumberAt
  <2>4. \A n : Held(n) => Held(n)'
    BY <2>1 DEF Held, Busy
  <2>5. \A n : Queued(n, j) => n \in 1..calls
    BY QueuedSpec
  <2> QED BY <1>1, <2>1, <2>2, <2>3, <2>4, <2>5, QuietKeepsBalance
<1>5. ASSUME NEW s \in Service, Serve(s)
      PROVE  Balanced(j)'
  BY <1>1, <1>5, ServeSpec, ServeKeepsBalance
<1>6. CASE Crash \/ Start
  <2>1. \A t \in Thread : Keeps(t)
    BY <1>6, NodeStepSpec
  <2>2. UNCHANGED <<calls, accepted, told>>
    BY <1>6 DEF Crash, Start, client, record
  <2>3. \A t \in Thread : Expects(t, j)' <=> Expects(t, j)
    BY <2>1 DEF Keeps, Expects
  <2>4. \A n : Held(n)' <=> Held(n)
    BY <2>1 DEF Keeps, Held, Busy
  <2>5. queue' = queue \/ queue'["submit_task"] = <<>>
    BY <1>2, <1>6 DEF Crash, Start
  <2>6. \A n : Queued(n, j)' => Queued(n, j)
    BY <2>5 DEF Queued, Places, NumberAt
  <2> QED BY <1>1, <2>2, <2>3, <2>4, <2>6, QuietKeepsBalance
<1> QED BY <1>3, <1>4, <1>5, <1>6 DEF Next

-----------------------------------------------------------------------------
(* Callers of a job                                                        *)

\* A step by which nobody takes up a job and nobody is told "yes".
LEMMA QuietKeepsOneCaller ==
    ASSUME OneCaller,
           \A j \in Job : told'[j]["yes"] = told[j]["yes"],
           \A j \in Job : \A t \in Thread : BusyWith(t, j)' => BusyWith(t, j)
    PROVE  OneCaller'
BY DEF OneCaller

\* A job keeps to one caller, whatever happens.
LEMMA OneCallerStep ==
    ASSUME TypeOK, TypeOK', NumbersTell, OneCaller, Next
    PROVE  OneCaller'
<1>1. ASSUME NEW t \in Thread, NEW answer \in {"yes", "unclear", "no"},
             Finishes(t, answer)
      PROVE  OneCaller'
  <2>1. /\ \A o \in Thread \ {t} : thread'[o] = thread[o]
        /\ \A j \in Job : ~BusyWith(t, j)'
    BY <1>1 DEF Finishes, BusyWith, Busy, Free
  <2>2. \A j \in Job : \A o \in Thread : BusyWith(o, j)' => BusyWith(o, j) /\ o # t
    BY <2>1 DEF BusyWith, Busy
  <2>3. \A j \in Job : told'[j]["yes"] = IF BusyWith(t, j) /\ answer = "yes"
                                         THEN told[j]["yes"] + 1 ELSE told[j]["yes"]
    BY <1>1, FinishesSpec DEF Said
  <2>4. ASSUME NEW j \in Job
        PROVE  /\ told'[j]["yes"] <= 1
               /\ told'[j]["yes"] = 1 => \A o \in Thread : ~BusyWith(o, j)'
               /\ \A o, k \in Thread : BusyWith(o, j)' /\ BusyWith(k, j)' => o = k
    <3>1. /\ told[j]["yes"] \in Nat /\ told[j]["yes"] <= 1
          /\ told[j]["yes"] = 1 => \A o \in Thread : ~BusyWith(o, j)
          /\ \A o, k \in Thread : BusyWith(o, j) /\ BusyWith(k, j) => o = k
      BY DEF OneCaller, TypeOK
    <3>2. CASE BusyWith(t, j)
      <4>1. told[j]["yes"] = 0
        BY <3>1, <3>2
      <4>2. told'[j]["yes"] \in {0, 1}
        BY <2>3, <4>1
      <4>3. \A o \in Thread : ~BusyWith(o, j)'
        BY <2>2, <3>1, <3>2
      <4> QED BY <4>2, <4>3
    <3>3. CASE ~BusyWith(t, j)
      BY <2>2, <2>3, <3>1, <3>3
    <3> QED BY <3>2, <3>3
  <2> QED BY <2>4 DEF OneCaller
<1>2. ASSUME NEW t \in Thread, Handle(t)
      PROVE  OneCaller'
  <2>1. CASE Send(t)
    <3>1. PICK service : Sends(t, service)
      BY <2>1, SendSpec
    <3> QED BY <3>1, QuietKeepsOneCaller DEF Sends, Keeps, BusyWith, Busy
  <2>2. CASE Moves(t)
    <3>1. \A o \in Thread : Busy(o) \/ thread'[o] = thread[o]
      BY <2>2 DEF Moves
    <3>2. \A j \in Job : \A o \in Thread : BusyWith(o, j)' => BusyWith(o, j)
      BY <2>2, <3>1 DEF Moves, BusyWith, Busy
    <3>3. told' = told
      BY <2>2 DEF Moves, record
    <3> QED BY <3>2, <3>3, QuietKeepsOneCaller
  <2>3. CASE Finishes(t, "yes") \/ Finishes(t, "no") \/ Finishes(t, "unclear")
    BY <1>1, <2>3
  <2> QED BY <1>2, <2>1, <2>2, <2>3, HandleSpec
<1>3. ASSUME NEW t \in Thread, NEW request \in Request, Begin(t, request)
      PROVE  OneCaller'
  <2>1. /\ ~Busy(t) /\ thread'[t].request = request
        /\ \A o \in Thread \ {t} : thread'[o] = thread[o]
        /\ told' = told
    BY <1>3, BeginSpec
  <2>2. ASSUME NEW j \in Job, BusyWith(t, j)'
        PROVE  told[j]["yes"] = 0 /\ \A o \in Thread : ~BusyWith(o, j)
    <3>1. request.service = "submit_task" /\ request.value = <<j>>
      BY <2>1, <2>2 DEF BusyWith
    <3>2. Wanted(j)
      BY <1>3, <3>1, RequestSpec DEF Begin
    <3> QED BY <3>2 DEF Wanted, BusyWith, Busy
  <2>3. \A j \in Job : \A o \in Thread : BusyWith(o, j)' => o = t \/ BusyWith(o, j)
    BY <2>1 DEF BusyWith, Busy
  <2>4. ASSUME NEW j \in Job
        PROVE  /\ told'[j]["yes"] <= 1
               /\ told'[j]["yes"] = 1 => \A o \in Thread : ~BusyWith(o, j)'
               /\ \A o, k \in Thread : BusyWith(o, j)' /\ BusyWith(k, j)' => o = k
    <3>1. /\ told[j]["yes"] <= 1
          /\ told[j]["yes"] = 1 => \A o \in Thread : ~BusyWith(o, j)
          /\ \A o, k \in Thread : BusyWith(o, j) /\ BusyWith(k, j) => o = k
      BY DEF OneCaller
    <3>2. CASE BusyWith(t, j)'
      <4>1. told[j]["yes"] # 1 /\ \A o \in Thread : BusyWith(o, j)' => o = t
        BY <2>2, <2>3, <3>2
      <4> QED BY <2>1, <3>1, <4>1
    <3>3. CASE ~BusyWith(t, j)'
      <4>1. \A o \in Thread : BusyWith(o, j)' => BusyWith(o, j)
        BY <2>3, <3>3
      <4> QED BY <2>1, <3>1, <4>1
    <3> QED BY <3>2, <3>3
  <2> QED BY <2>4 DEF OneCaller
<1>4. ASSUME NEW s \in Service, Serve(s)
      PROVE  OneCaller'
  <2>1. PICK answer : Serves(s, answer)
    BY <1>4, ServeSpec
  <2>2. \A j \in Job : \A t \in Thread : BusyWith(t, j)' => BusyWith(t, j)
    BY <2>1, ServesSpec DEF BusyWith
  <2>3. told' = told
    BY <2>1 DEF Serves
  <2> QED BY <2>2, <2>3, QuietKeepsOneCaller
<1>5. CASE Crash \/ Start
  <2>1. \A t \in Thread : Keeps(t)
    BY <1>5, NodeStepSpec
  <2>2. told' = told
    BY <1>5 DEF Crash, Start, record
  <2> QED BY <2>1, <2>2, QuietKeepsOneCaller DEF Keeps, BusyWith, Busy
<1> QED BY <1>2, <1>3, <1>4, <1>5 DEF Next

-----------------------------------------------------------------------------
(* Calls that cross no other                                               *)

\* What CallsApart says of a thread t that asks service s alone, and of a
\* service the console is sure of.
Apart(t, s) ==
    /\ up
    /\ \A o \in Thread \ {t} : ~Asks(o, s)
    /\ thread[t].reply = <<>> =>
          queue[s] # <<>> /\ NumberAt(s, Len(queue[s])) = thread[t].number
    /\ thread[t].reply # <<>> =>
          queue[s] = <<>> /\ (s \in Setting => setting[s] = thread[t].reply[2])

Settled(s) ==
    /\ up /\ queue[s] = <<>> /\ view[s] = setting[s]
    /\ \A t \in Thread : ~Asks(t, s)

\* A thread that waits for a service has asked one there is.
LEMMA ApartSpec ==
    ASSUME TypeOK, CallsApart
    PROVE  /\ \A t \in Thread : \A s \in Service :
                 Asks(t, s) /\ thread[t].alone => Apart(t, s)
           /\ \A s \in sure : Settled(s) /\ s \in Service /\ s \in Setting
BY DEF CallsApart, Apart, Settled, TypeOK, Setting, Service

\* CallsApart from its parts, after a step.
LEMMA ApartNext ==
    ASSUME \A t \in Thread : \A s \in Service :
              Asks(t, s)' /\ thread'[t].alone => Apart(t, s)',
           \A s \in sure' : Settled(s)'
    PROVE  CallsApart'
BY DEF CallsApart, Apart, Settled

\* A step by which calls at most end.
LEMMA QuietKeepsApart ==
    ASSUME TypeOK, CallsApart, UNCHANGED node,
           \A t \in Thread : thread'[t].pc = "waiting" => thread'[t] = thread[t],
           \A s \in sure' : Settled(s)'
    PROVE  CallsApart'
<1>1. \A t \in Thread : \A s \in Service :
         Asks(t, s)' => Asks(t, s) /\ thread'[t] = thread[t]
  BY DEF Asks
<1>2. UNCHANGED <<queue, up, setting>>
  BY DEF node
<1>3. ASSUME NEW t \in Thread, NEW s \in Service, Asks(t, s)', thread'[t].alone
      PROVE  Apart(t, s)'
  <2>1. Asks(t, s) /\ thread'[t] = thread[t] /\ Apart(t, s)
    BY <1>1, <1>3, ApartSpec
  <2>2. \A o \in Thread \ {t} : ~Asks(o, s)'
    BY <1>1, <2>1 DEF Apart
  <2> QED BY <1>2, <2>1, <2>2 DEF Apart, NumberAt
<1> QED BY <1>3, ApartNext

\* The same, if the console's view and what it is sure of stay.
LEMMA QuietKeepsSure ==
    ASSUME TypeOK, CallsApart, UNCHANGED <<queue, up, setting, view, sure>>,
           \A t \in Thread : thread'[t].pc = "waiting" => thread'[t] = thread[t]
    PROVE  CallsApart'
<1>1. \A t \in Thread : \A s : Asks(t, s)' => Asks(t, s)
  BY DEF Asks
<1>2. \A s \in sure' : Settled(s)'
  BY <1>1, ApartSpec DEF Settled
<1> QED BY <1>2, QuietKeepsApart DEF node

\* An answer that crossed no other call makes the console sure.
LEMMA AnswerKeepsApart ==
    ASSUME TypeOK, NumbersTell, CallsApart, NEW t \in Thread,
           Answered(t), thread[t].reply # <<>>,
           NEW answer, Finishes(t, answer)
    PROVE  CallsApart'
<1>1. PICK service \in Service :
         /\ service = thread[t].request.service
         /\ thread[t].pc = "waiting" /\ Asks(t, service)
  <2>1. thread[t].pc = "waiting" /\ thread[t] \in Step
    BY ThreadSpec DEF Answered, Busy
  <2>2. thread[t].request \in Request
    BY <2>1 DEF Step
  <2> QED BY <2>1, <2>2, RequestSpec DEF Asks
<1>2. /\ UNCHANGED <<queue, up, setting>> /\ UNCHANGED node
      /\ thread'[t].pc = "free"
      /\ \A o \in Thread \ {t} : thread'[o] = thread[o]
  BY DEF Finishes, Free, node
<1>3. \A o \in Thread : thread'[o].pc = "waiting" => thread'[o] = thread[o]
  BY <1>2
<1>4. \A o \in Thread : \A s : Asks(o, s)' => Asks(o, s) /\ o # t
  BY <1>2 DEF Asks
<1>5. CASE service \notin Setting
  <2>1. UNCHANGED <<view, sure>>
    BY <1>1, <1>5 DEF Answered
  <2> QED BY <1>2, <1>3, <2>1, QuietKeepsSure
<1>6. CASE service \in Setting
  <2>1. /\ view' = [view EXCEPT ![service] = Shown(service, thread[t].reply)]
        /\ sure' = IF /\ thread[t].alone /\ up
                      /\ service = "set_plugins" \/ thread[t].reply[1]
                   THEN sure \cup {service} ELSE sure
    BY <1>1, <1>6 DEF Answered
  <2>2. service \notin sure
    BY <1>1, ApartSpec DEF Settled
  <2>3. \A s \in Setting : s # service => view'[s] = view[s]
    BY <2>1 DEF TypeOK
  <2>4. ASSUME NEW s \in sure', s # service
        PROVE  Settled(s)'
    <3>1. s \in sure
      BY <2>1, <2>4
    <3>2. Settled(s) /\ s \in Setting
      BY <3>1, ApartSpec
    <3>3. view'[s] = view[s]
      BY <2>3, <2>4, <3>2
    <3> QED BY <1>2, <1>4, <3>2, <3>3 DEF Settled
  <2>5. ASSUME service \in sure'
        PROVE  Settled(service)'
    <3>1. thread[t].alone /\ up /\ (service = "set_plugins" \/ thread[t].reply[1])
      BY <2>1, <2>2, <2>5
    <3>2. Apart(t, service)
      BY <1>1, <3>1, ApartSpec
    <3>3. view'[service] = thread[t].reply[2]
      BY <1>6, <2>1, <3>1 DEF TypeOK, Shown
    <3>4. queue[service] = <<>> /\ setting[service] = thread[t].reply[2]
      BY <1>6, <3>2 DEF Apart
    <3>5. \A o \in Thread : ~Asks(o, service)'
      BY <1>4, <3>2 DEF Apart
    <3> QED BY <1>2, <3>1, <3>3, <3>4, <3>5 DEF Settled
  <2> QED BY <1>2, <1>3, <2>4, <2>5, QuietKeepsApart
<1> QED BY <1>5, <1>6

\* A request that joins the queue is the last one there; others that wait for
\* the service are no longer alone.
LEMMA SendKeepsApart ==
    ASSUME TypeOK, NumbersTell, CallsApart, NEW t \in Thread, NEW service,
           Sends(t, service)
    PROVE  CallsApart'
<1>1. /\ service \in Service /\ up' /\ UNCHANGED <<up, setting, view>>
      /\ sure' = sure \ {service}
      /\ thread[t].pc = "bridged" /\ thread[t].reply = <<>>
      /\ thread'[t].reply = <<>> /\ thread'[t].number = thread[t].number
      /\ \A r \in Service \ {service} : queue'[r] = queue[r]
  BY DEF Sends, NumbersTell
<1>2. /\ \A s : Asks(t, s)' <=> s = service
      /\ \A o \in Thread \ {t} : \A s : Asks(o, s)' <=> Asks(o, s)
      /\ \A s : ~Asks(t, s)
  BY DEF Sends, Keeps, Asks
<1>3. ASSUME NEW o \in Thread, NEW s \in Service, Asks(o, s)', thread'[o].alone, o # t
      PROVE  Apart(o, s)'
  <2>1. Asks(o, s)
    BY <1>2, <1>3
  <2>2. s # service /\ thread'[o] = thread[o]
    BY <1>3, <2>1 DEF Sends, Asks
  <2>3. Apart(o, s)
    BY <1>3, <2>1, <2>2, ApartSpec
  <2>4. \A k \in Thread \ {o} : ~Asks(k, s)'
    BY <1>2, <2>2, <2>3 DEF Apart
  <2>5. queue'[s] = queue[s]
    BY <1>1, <2>2
  <2> QED BY <1>1, <2>2, <2>3, <2>4, <2>5 DEF Apart, NumberAt
<1>4. ASSUME thread'[t].alone
      PROVE  Apart(t, service)'
  <2>1. \A o \in Thread \ {t} : ~Asks(o, service)'
    BY <1>2, <1>4 DEF Sends
  <2>2. /\ Len(queue[service]) \in Nat
        /\ Len(queue'[service]) = Len(queue[service]) + 1
        /\ queue'[service][Len(queue[service]) + 1][1] = thread[t].number
    BY <1>1, PlacesSpec DEF Sends
  <2>3. Len(queue'[service]) # 0
    BY <2>2
  <2>4. queue'[service] # <<>>
    BY <2>3
  <2> QED BY <1>1, <2>1, <2>2, <2>4 DEF Apart, NumberAt
<1>5. ASSUME NEW s \in sure'
      PROVE  Settled(s)'
  <2>1. Settled(s) /\ s \in Service /\ s # service
    BY <1>1, <1>5, ApartSpec
  <2> QED BY <1>1, <1>2, <2>1 DEF Settled
<1> QED BY <1>2, <1>3, <1>4, <1>5, ApartNext

\* The last answer the node gives to a service is that to the call that waits
\* alone; until then that call stays the last in the queue.
LEMMA ServeKeepsApart ==
    ASSUME TypeOK, TypeOK', NumbersTell, CallsApart, NEW service \in Service,
           NEW answer, Serves(service, answer)
    PROVE  CallsApart'
<1>1. /\ Len(queue[service]) \in Nat \ {0} /\ queue[service] # <<>>
      /\ 1 \in Places(service) /\ Len(queue[service]) \in Places(service)
      /\ queue[service][1] \in Nat \X Request
      /\ Len(queue'[service]) = Len(queue[service]) - 1
      /\ UNCHANGED <<up, view, sure>>
      /\ \A r \in Service \ {service} : queue'[r] = queue[r]
      /\ \A i \in 1..(Len(queue[service]) - 1) :
            queue'[service][i] = queue[service][i + 1]
  BY PlacesSpec DEF Serves, Places
<1>2. answer # <<>>
  <2>1. queue[service][1][2] \in Request
    BY <1>1
  <2>2. answer \in BOOLEAN \X Seq(Name)
    BY <2>1, OutcomesSpec DEF Serves
  <2> QED BY <2>2
<1>3. /\ \A r \in Setting \ {service} : setting'[r] = setting[r]
      /\ service \in Setting => setting'[service] = answer[2]
  BY DEF Serves, TypeOK
<1>4. \A o \in Thread : \A s : Asks(o, s)' <=> Asks(o, s)
  BY ServesSpec DEF Asks, Busy
<1>5. ASSUME NEW o \in Thread, NEW s \in Service, Asks(o, s)', thread'[o].alone
      PROVE  Apart(o, s)'
  <2>1. /\ Asks(o, s) /\ Busy(o) /\ thread[o].pc = "waiting" /\ thread[o].alone
        /\ thread'[o].number = thread[o].number
        /\ IF thread[o].number = NumberAt(service, 1)
           THEN thread'[o].reply = answer ELSE thread'[o] = thread[o]
    BY <1>4, <1>5, ServesSpec DEF Asks, Busy
  <2>2. Apart(o, s)
    BY <2>1, ApartSpec
  <2>3. up' /\ \A k \in Thread \ {o} : ~Asks(k, s)'
    BY <1>1, <1>4, <2>2 DEF Apart
  <2>4. CASE s # service
    <3>1. thread[o].number # NumberAt(service, 1)
      BY <1>1, <2>1, <2>4, NumberSpec DEF Asks
    <3>2. thread'[o] = thread[o] /\ queue'[s] = queue[s]
      BY <1>1, <2>1, <2>4, <3>1
    <3>3. s \in Setting => setting'[s] = setting[s]
      BY <1>3, <2>4
    <3> QED BY <2>2, <2>3, <3>2, <3>3 DEF Apart, NumberAt
  <2>5. CASE s = service
    <3>1. /\ thread[o].reply = <<>>
          /\ NumberAt(s, Len(queue[s])) = thread[o].number
      BY <1>1, <2>2, <2>5 DEF Apart
    <3>2. CASE Len(queue[s]) = 1
      <4>1. thread'[o].reply = answer
        BY <2>1, <2>5, <3>1, <3>2
      <4>2. queue'[s] = <<>>
        <5>1. queue'[s] \in Seq(Nat \X Request) /\ Len(queue'[s]) = 0
          BY <1>1, <2>5, <3>2 DEF TypeOK
        <5> QED BY <5>1, EmptySeq
      <4> QED BY <1>2, <1>3, <2>3, <2>5, <4>1, <4>2 DEF Apart
    <3>3. CASE Len(queue[s]) # 1
      <4>1. thread[o].number # NumberAt(service, 1)
        <5>1. NumberAt(s, Len(queue[s])) # NumberAt(s, 1)
          BY <1>1, <2>5, <3>3 DEF NumbersTell
        <5> QED BY <2>5, <3>1, <5>1
      <4>2. thread'[o] = thread[o]
        BY <2>1, <4>1
      <4>3. /\ Len(queue'[s]) \in 1..(Len(queue[s]) - 1)
            /\ Len(queue'[s]) + 1 = Len(queue[s]) /\ Len(queue'[s]) # 0
        <5>1. PICK l \in Nat : l = Len(queue[s]) /\ l # 0
          BY <1>1, <2>5
        <5>2. l - 1 \in Nat /\ l - 1 # 0
          BY <3>3, <5>1
        <5>3. Len(queue'[s]) = l - 1
          BY <1>1, <2>5, <5>1
        <5>4. \A m \in Nat : m # 0 => m \in 1..m
          OBVIOUS
        <5>5. (l - 1) + 1 = l
          BY <5>1
        <5> QED BY <5>1, <5>2, <5>3, <5>4, <5>5
      <4>4. queue'[s][Len(queue'[s])] = queue[s][Len(queue[s])]
        BY <1>1, <2>5, <4>3
      <4>5. queue'[s] # <<>>
        BY <4>3
      <4> QED BY <2>3, <3>1, <4>2, <4>4, <4>5 DEF Apart, NumberAt
    <3> QED BY <3>2, <3>3
  <2> QED BY <2>4, <2>5
<1>6. ASSUME NEW s \in sure'
      PROVE  Settled(s)'
  <2>1. Settled(s) /\ s \in Service /\ s \in Setting
    BY <1>1, <1>6, ApartSpec
  <2>2. s # service
    BY <1>1, <2>1 DEF Settled
  <2> QED BY <1>1, <1>3, <1>4, <2>1, <2>2 DEF Settled
<1> QED BY <1>5, <1>6, ApartNext

\* Calls stay apart, whatever happens.
LEMMA ApartStep ==
    ASSUME TypeOK, TypeOK', NumbersTell, CallsApart, Next
    PROVE  CallsApart'
<1>1. ASSUME NEW t \in Thread, Handle(t)
      PROVE  CallsApart'
  <2>1. CASE Send(t)
    BY <2>1, SendSpec, SendKeepsApart
  <2>2. CASE Moves(t)
    <3>1. \A o \in Thread : thread'[o].pc = "waiting" => thread'[o] = thread[o]
      BY <2>2 DEF Moves
    <3>2. UNCHANGED <<queue, up, setting, view, sure>>
      BY <2>2 DEF Moves, node, record
    <3> QED BY <3>1, <3>2, QuietKeepsSure
  <2>3. ASSUME NEW answer, Finishes(t, answer), UNCHANGED <<view, sure>>
        PROVE  CallsApart'
    <3>1. \A o \in Thread : thread'[o].pc = "waiting" => thread'[o] = thread[o]
      BY <2>3 DEF Finishes, Free
    <3>2. UNCHANGED <<queue, up, setting, view, sure>>
      BY <2>3 DEF Finishes, node
    <3> QED BY <3>1, <3>2, QuietKeepsSure
  <2>4. ASSUME NEW answer, Finishes(t, answer), Answered(t), thread[t].reply # <<>>
        PROVE  CallsApart'
    BY <2>4, AnswerKeepsApart
  <2> QED BY <1>1, <2>1, <2>2, <2>3, <2>4, HandleSpec
<1>2. ASSUME NEW t \in Thread, NEW request \in Request, Begin(t, request)
      PROVE  CallsApart'
  <2>1. /\ thread'[t].pc \in {"entered", "bridged"}
        /\ \A o \in Thread \ {t} : thread'[o] = thread[o]
        /\ UNCHANGED <<queue, up, setting, view, sure>>
    BY <1>2, BeginSpec
  <2>2. \A o \in Thread : thread'[o].pc = "waiting" => thread'[o] = thread[o]
    BY <2>1
  <2> QED BY <2>1, <2>2, QuietKeepsSure
<1>3. ASSUME NEW s \in Service, Serve(s)
      PROVE  CallsApart'
  BY <1>3, ServeSpec, ServeKeepsApart
<1>4. CASE Crash
  <2>1. /\ sure' = {} /\ ~Start
        /\ \A t \in Thread : thread'[t].pc = "waiting" => ~thread'[t].alone
    BY <1>4, NodeStepSpec DEF Crash, Start
  <2> QED BY <2>1, ApartNext DEF Asks
<1>5. CASE Start
  <2>1. ~up /\ thread' = thread /\ sure' = sure
    BY <1>5 DEF Start, record
  <2>2. sure = {} /\ \A t \in Thread : \A s \in Service : ~(Asks(t, s) /\ thread[t].alone)
    BY <2>1, ApartSpec DEF Apart, Settled
  <2> QED BY <2>1, <2>2, ApartNext DEF Asks
<1> QED BY <1>1, <1>2, <1>3, <1>4, <1>5 DEF Next

-----------------------------------------------------------------------------
(* The theorems                                                            *)

\* Before the first request the books are empty and nothing is sure.
LEMMA CallsInit == Init => CallsInv
<1> SUFFICES ASSUME Init PROVE CallsInv
  OBVIOUS
<1>1. /\ calls = 0 /\ up = TRUE /\ setting = Default /\ sure = {}
      /\ thread = [t \in Thread |-> Free]
      /\ queue = [s \in Service |-> <<>>]
      /\ view = [s \in Setting |-> <<"?">>]
      /\ accepted = [j \in Job |-> 0]
      /\ told = [j \in Job |-> [answer \in Said |-> 0]]
  BY DEF Init, Said
<1>2. /\ \A t \in Thread : thread[t].pc = "free" /\ ~Busy(t)
      /\ \A t \in Thread : \A s : ~Asks(t, s)
      /\ \A s \in Service : Places(s) = {}
  BY <1>1 DEF Busy, Asks, Places, Free
<1>3. TypeOK
  <2>1. <<"?">> \in Seq(Name)
    <3>1. "?" \in Name
      BY DEF Name
    <3> QED BY <3>1, NamesSpec
  <2>2. queue \in [Service -> Seq(Nat \X Request)]
    BY <1>1, EmptySeq
  <2>3. told \in [Job -> [Said -> Nat]]
    <3>1. [answer \in Said |-> 0] \in [Said -> Nat]
      OBVIOUS
    <3> QED BY <1>1, <3>1
  <2> QED BY <1>1, <2>1, <2>2, <2>3, DefaultSpec DEF TypeOK, Said
<1>4. NumbersTell
  BY <1>2 DEF NumbersTell
<1>5. BooksBalance
  <2>1. ASSUME NEW j \in Job
        PROVE  Balanced(j)
    <3>1. Pending(j) = {} /\ Orphans(j) = {}
      BY <1>1, <1>2 DEF Pending, Orphans, Service
    <3>2. Cardinality({}) = 0
      BY FS_EmptySet
    <3>3. told[j]["yes"] = 0 /\ told[j]["unclear"] = 0 /\ accepted[j] = 0
      BY <1>1 DEF Said
    <3>4. Cardinality(Pending(j)) = 0 /\ Cardinality(Orphans(j)) = 0
      BY <3>1, <3>2
    <3> QED BY <3>3, <3>4 DEF Balanced
  <2> QED BY <2>1 DEF BooksBalance, Balanced
<1>6. OneCaller
  BY <1>1, <1>2 DEF OneCaller, BusyWith, Said
<1>7. CallsApart
  BY <1>1, <1>2 DEF CallsApart
<1> QED BY <1>3, <1>4, <1>5, <1>6, <1>7 DEF CallsInv

\* Every step keeps it.
LEMMA CallsStep == CallsInv /\ [Next]_vars => CallsInv'
<1> SUFFICES ASSUME CallsInv, [Next]_vars PROVE CallsInv'
  OBVIOUS
<1>1. TypeOK /\ NumbersTell /\ BooksBalance /\ OneCaller /\ CallsApart
  BY DEF CallsInv
<1>2. CASE Next
  <2>1. TypeOK'
    <3>1. CASE \E t \in Thread : Handle(t)
      BY <1>1, <3>1, HandleKeepsTypes
    <3>2. CASE \/ \E t \in Thread : \E request \in Request : Begin(t, request)
               \/ \E s \in Service : Serve(s)
               \/ Crash \/ Start
      BY <1>1, <3>2, NodeKeepsTypes
    <3> QED BY <1>2, <3>1, <3>2 DEF Next
  <2> QED BY <1>1, <1>2, <2>1, NumbersStep, BalanceStep, OneCallerStep, ApartStep
          DEF CallsInv
<1>3. CASE UNCHANGED vars
  <2>1. UNCHANGED <<calls, thread, queue, up, setting, view, accepted, told, sure>>
    BY <1>3 DEF vars, client, node, record
  <2>2. TypeOK'
    BY <1>1, <2>1 DEF TypeOK
  <2>3. NumbersTell'
    BY <1>1, <2>1 DEF NumbersTell, Busy, Places, NumberAt
  <2>4. BooksBalance'
    BY <1>1, <2>1 DEF BooksBalance, Pending, Orphans, Busy, Places, NumberAt
  <2>5. OneCaller'
    BY <1>1, <2>1 DEF OneCaller, BusyWith, Busy
  <2>6. CallsApart'
    BY <1>1, <2>1, QuietKeepsSure
  <2> QED BY <2>2, <2>3, <2>4, <2>5, <2>6 DEF CallsInv
<1> QED BY <1>2, <1>3

\* Numbers tell requests apart, what is on its way balances the books, no job
\* has two callers and calls that cross no other stay so, whichever threads,
\* timeouts, crashes and restarts there are (ros_bridge.py, console.py and the
\* services of fleet_node.cpp).
THEOREM CallsInvariantHolds == Spec => []CallsInv
<1>1. Init => CallsInv
  BY CallsInit
<1>2. CallsInv /\ [Next]_vars => CallsInv'
  BY CallsStep
<1> QED BY <1>1, <1>2, PTL DEF Spec

\* HTTP 200 means that the node took the job, and the node takes none more
\* often than callers were told so or were left without its word (submit_task
\* of main.py, _spin_future of ros_bridge.py), for any number of threads.
THEOREM BooksAddUp == Spec => []AnswersAddUp
<1>1. CallsInv => AnswersAddUp
  <2> SUFFICES ASSUME CallsInv, NEW j \in Job
               PROVE  /\ told[j]["yes"] <= accepted[j]
                      /\ accepted[j] <= told[j]["yes"] + told[j]["unclear"]
                                           + Cardinality(Pending(j))
    BY DEF AnswersAddUp
  <2>1. TypeOK /\ Balanced(j)
    BY DEF CallsInv, BooksBalance, Balanced
  <2>2. /\ Cardinality(Pending(j)) \in Nat /\ Cardinality(Orphans(j)) \in Nat
        /\ told[j]["yes"] \in Nat /\ told[j]["unclear"] \in Nat /\ accepted[j] \in Nat
    BY <2>1, CountsSpec
  <2> QED BY <2>1, <2>2 DEF Balanced
<1> QED BY <1>1, CallsInvariantHolds, PTL

\* A job that is repeated only after "no" is accepted once at most: the one
\* "yes" is either on its way to its only caller or was passed on to him.
THEOREM JobsAcceptedOnce == Spec => []AcceptedOnce
<1>1. CallsInv => AcceptedOnce
  <2> SUFFICES ASSUME CallsInv, NEW j \in Job, told[j]["unclear"] = 0
               PROVE  accepted[j] <= 1
    BY DEF AcceptedOnce
  <2>1. TypeOK /\ Balanced(j) /\ OneCaller
    BY DEF CallsInv, BooksBalance, Balanced
  <2>2. /\ IsFiniteSet(Pending(j))
        /\ Cardinality(Pending(j)) \in Nat /\ Cardinality(Orphans(j)) \in Nat
        /\ told[j]["yes"] \in Nat /\ accepted[j] \in Nat
    BY <2>1, CountsSpec
  <2>3. /\ told[j]["yes"] <= 1
        /\ told[j]["yes"] = 1 => Pending(j) = {}
        /\ \A t, o \in Pending(j) : t = o
    BY <2>1 DEF OneCaller, Pending, BusyWith, Busy
  <2>4. Cardinality(Pending(j)) <= 1 /\ (Pending(j) = {} => Cardinality(Pending(j)) = 0)
    <3>1. CASE Pending(j) = {}
      BY <3>1, FS_EmptySet
    <3>2. CASE Pending(j) # {}
      <4>1. PICK t : Pending(j) = {t}
        BY <2>3, <3>2
      <4>2. Cardinality({t}) = 1
        BY FS_Singleton
      <4> QED BY <3>2, <4>1, <4>2
    <3> QED BY <3>1, <3>2
  <2>5. PICK y \in Nat : y = told[j]["yes"]
    BY <2>2
  <2>6. PICK a \in Nat : a = accepted[j]
    BY <2>2
  <2>7. PICK p \in Nat : p = Cardinality(Pending(j))
    BY <2>2
  <2>8. PICK o \in Nat : o = Cardinality(Orphans(j))
    BY <2>2
  <2>9. a + o <= y + p
    BY <2>1, <2>5, <2>6, <2>7, <2>8 DEF Balanced
  <2>10. y + p <= 1
    BY <2>3, <2>4, <2>5, <2>7
  <2> QED BY <2>6, <2>9, <2>10
<1> QED BY <1>1, CallsInvariantHolds, PTL

\* What the console shows of a setting is what the node runs, from an answer
\* that crossed no other call to the next call or the end of the node
\* (set_plugins and set_mode of console.py), for any number of threads.
THEOREM ConsoleShowsWhatRuns == Spec => []ShowsWhatRuns
<1>1. CallsInv => ShowsWhatRuns
  BY DEF CallsInv, CallsApart, ShowsWhatRuns
<1> QED BY <1>1, CallsInvariantHolds, PTL

=============================================================================

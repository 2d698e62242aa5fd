---------------------------- MODULE ServiceCalls ----------------------------
(***************************************************************************)
(* The fleet node's services as the HTTP processes call them: aba_service  *)
(* (main.py, ros_bridge.py) and the operator console (console.py).  Each   *)
(* HTTP request runs in a thread of its own, sends one request to the node *)
(* and waits five seconds for the answer.  The node (fleet_node.cpp) takes *)
(* requests one by one; what it does with them is in FleetNode, here it is *)
(* only whether work was accepted and which settings are in force.         *)
(***************************************************************************)
EXTENDS Integers, FiniteSets, SequencesExt

CONSTANTS
    Thread,         \* HTTP requests that may be handled together
    Job,            \* pieces of work somebody wants done
    Plugins,        \* values of a plugin pair <<dispatcher, traffic>>
    MaxCalls        \* bound on HTTP requests

ASSUME CallAssumption == IsFiniteSet(Thread) /\ MaxCalls \in Nat

VARIABLES
    ros,        \* rclpy.init() was called in aba_service
    bridge,     \* _bridge is set in aba_service
    calls,      \* HTTP requests so far, numbers the requests to the node
    thread,     \* what each thread is doing
    queue,      \* requests the node has not taken, by service
    up,
    setting,    \* in the node: the loaded plugins and a robot's mode
    view,       \* in the console: self.active and self.fleet_mode
    \* Only recorded
    accepted,   \* how often the node accepted each job
    told,       \* what the callers of each job were told
    sure        \* settings the console has no reason to doubt

client == <<ros, bridge, calls>>
node == <<queue, up, setting>>
record == <<accepted, told, sure>>
vars == <<client, thread, node, view, record>>

Service == {"submit_task", "set_plugins", "set_robot_mode"}

Setting == {"set_plugins", "set_robot_mode"}

\* "?" is a name that cannot be loaded or is no mode, "" leaves a plugin alone.
Request ==
    [service : {"submit_task"}, from : {"aba_service", "console"}, value : {<<j>> : j \in Job}]
    \cup [service : {"set_plugins"}, from : {"console"}, value : Plugins]
    \cup [service : {"set_robot_mode"}, from : {"console"}, value : {<<"STOP">>, <<"?">>}]

\* What the node's parameters say when it starts.
Default == [s \in Setting |-> IF s = "set_plugins" THEN <<"d", "t">> ELSE <<"PATROL">>]

Free == [pc |-> "free", number |-> 0, reply |-> <<>>]

\* An answer of the node: whether it is positive, and the setting in force.
Answer(ok, value) == <<ok, value>>

-----------------------------------------------------------------------------
(* An HTTP request                                                         *)

Doing(t, step) == thread' = [thread EXCEPT ![t] = step]

\* A caller posts a job again only if no earlier answer was positive and none
\* is outstanding.
Wanted(job) ==
    /\ told[job]["yes"] = 0
    /\ \A t \in Thread : thread[t].pc # "free" => thread[t].request.value # <<job>>

\* Threads are alike; the first free one takes the request.
Begin(t, request) ==
    /\ thread[t].pc = "free"
    /\ \A o \in Thread : thread[o].pc = "free" => t <= o
    /\ calls < MaxCalls
    /\ request.service = "submit_task" => Wanted(request.value[1])
    /\ calls' = calls + 1
    /\ Doing(t, [pc |-> IF request.from = "aba_service" THEN "entered" ELSE "bridged",
                 number |-> calls + 1, request |-> request, alone |-> TRUE,
                 reply |-> <<>>])
    /\ UNCHANGED <<ros, bridge, node, view, record>>

\* The HTTP request ends; callers of a job remember that it was taken or that
\* this is unclear.
Ends(t, answer) ==
    /\ Doing(t, Free)
    /\ told' = IF thread[t].request.service = "submit_task" /\ answer # "no"
               THEN [told EXCEPT ![thread[t].request.value[1]][answer] = @ + 1]
               ELSE told

\* get_bridge creates the bridge on first use; nothing keeps a second thread
\* from finding none while the first is at it.
get_bridge(t) ==
    /\ thread[t].pc = "entered"
    /\ Doing(t, [thread[t] EXCEPT !.pc = IF bridge THEN "bridged" ELSE "starting"])
    /\ UNCHANGED <<client, node, view, record>>

\* rclpy.init() raises when it was called before: HTTP 500, of which the caller
\* cannot tell whether the node has his job.
InitRos(t) ==
    /\ thread[t].pc = "starting"
    /\ IF ros THEN Ends(t, "unclear") /\ UNCHANGED ros
       ELSE /\ ros' = TRUE
            /\ Doing(t, [thread[t] EXCEPT !.pc = "building"])
            /\ UNCHANGED told
    /\ UNCHANGED <<bridge, calls, node, view, accepted, sure>>

SetBridge(t) ==
    /\ thread[t].pc = "building"
    /\ bridge' = TRUE
    /\ Doing(t, [thread[t] EXCEPT !.pc = "bridged"])
    /\ UNCHANGED <<ros, calls, node, view, record>>

\* wait_for_service and call_async.  A setting that is being changed is in
\* doubt, and so are the answers of calls that cross.
Send(t) ==
    LET service == thread[t].request.service
        others == {o \in Thread \ {t} : /\ thread[o].pc = "waiting"
                                        /\ thread[o].request.service = service}
    IN  /\ thread[t].pc = "bridged"
        /\ up
        /\ queue' = [queue EXCEPT ![service] = Append(@, <<thread[t].number, thread[t].request>>)]
        /\ thread' = [o \in Thread |->
               IF o = t THEN [thread[t] EXCEPT !.pc = "waiting", !.alone = others = {}]
               ELSE IF o \in others THEN [thread[o] EXCEPT !.alone = FALSE]
               ELSE thread[o]]
        /\ sure' = sure \ {service}
        /\ UNCHANGED <<client, up, setting, view, accepted, told>>

\* fleet_unavailable.
NotThere(t) ==
    /\ thread[t].pc = "bridged"
    /\ ~up
    /\ Ends(t, "no")
    /\ UNCHANGED <<client, node, view, accepted, sure>>

\* Variant: the console believes a positive answer only.
ShownIfOk(service, answer) == IF answer[1] THEN answer[2] ELSE view[service]

\* What the console shows after an answer: the mode it asked for if that was
\* granted, but whatever plugins the answer names.
Shown(service, answer) ==
    IF service = "set_plugins" \/ answer[1] THEN answer[2] ELSE view[service]

Answered(t) ==
    LET service == thread[t].request.service
        answer == thread[t].reply
    IN  /\ thread[t].pc = "waiting" /\ answer # <<>>
        /\ Ends(t, IF answer[1] THEN "yes" ELSE "no")
        /\ IF service \in Setting
           THEN /\ view' = [view EXCEPT ![service] = Shown(service, answer)]
                /\ sure' = IF thread[t].alone /\ up /\ (service = "set_plugins" \/ answer[1])
                           THEN sure \cup {service} ELSE sure
           ELSE UNCHANGED <<view, sure>>
        /\ UNCHANGED <<client, node, accepted>>

\* Variants: no timeout; a timeout reported as a refusal; one that makes the
\* bridge send the request again.
TimedOutNever(t) == FALSE /\ UNCHANGED vars

TimedOutAsNo(t) ==
    /\ thread[t].pc = "waiting"
    /\ Ends(t, "no")
    /\ UNCHANGED <<client, node, view, accepted, sure>>

TimedOutRetried(t) ==
    /\ thread[t].pc = "waiting"
    /\ Doing(t, [thread[t] EXCEPT !.pc = "bridged"])
    /\ UNCHANGED <<client, node, view, record>>

\* After five seconds, or at once with HTTP 500 where another thread of
\* aba_service is spinning the node; the request stays where it is.
TimedOut(t) ==
    /\ thread[t].pc = "waiting"
    /\ Ends(t, "unclear")
    /\ UNCHANGED <<client, node, view, accepted, sure>>

-----------------------------------------------------------------------------
(* The node                                                                *)

\* Loading goes dispatcher first; a name that cannot be loaded throws, and
\* what was loaded before stays.
Loaded(plugins) ==
    LET old == setting["set_plugins"]
        disp == IF plugins[1] \in {"", "?"} THEN old[1] ELSE plugins[1]
        traf == IF plugins[1] = "?" \/ plugins[2] \in {"", "?"} THEN old[2] ELSE plugins[2]
    IN  <<disp, traf>>

\* The answers a request may get.  Whether work is accepted depends on robots,
\* batteries and the map: FleetNode.
Outcomes(request) ==
    IF request.service = "submit_task" THEN {Answer(ok, <<>>) : ok \in BOOLEAN}
    ELSE IF request.service = "set_plugins"
    THEN {Answer("?" \notin ToSet(request.value), Loaded(request.value))}
    ELSE IF request.value = <<"?">> THEN {Answer(FALSE, setting["set_robot_mode"])}
    ELSE {Answer(TRUE, request.value)}

\* on_submit, on_set_plugins, on_set_mode: the answer goes to whoever asked,
\* if he still waits.
Serve(service) ==
    /\ up /\ queue[service] # <<>>
    /\ LET number == Head(queue[service])[1]
           request == Head(queue[service])[2]
       IN  \E answer \in Outcomes(request) :
             /\ thread' = [t \in Thread |->
                    IF thread[t].pc = "waiting" /\ thread[t].number = number
                    THEN [thread[t] EXCEPT !.reply = answer] ELSE thread[t]]
             /\ IF service \in Setting
                THEN /\ setting' = [setting EXCEPT ![service] = answer[2]]
                     /\ UNCHANGED accepted
                ELSE /\ accepted' = [accepted EXCEPT ![request.value[1]] =
                                        IF answer[1] THEN @ + 1 ELSE @]
                     /\ UNCHANGED setting
    /\ queue' = [queue EXCEPT ![service] = Tail(@)]
    /\ UNCHANGED <<client, up, view, told, sure>>

\* The process ends, with its queues and everything it had accepted.
Crash ==
    /\ up
    /\ up' = FALSE
    /\ queue' = [s \in Service |-> <<>>]
    /\ sure' = {}
    /\ thread' = [t \in Thread |-> IF thread[t].pc = "waiting"
                                   THEN [thread[t] EXCEPT !.alone = FALSE] ELSE thread[t]]
    /\ UNCHANGED <<client, setting, view, accepted, told>>

Start ==
    /\ ~up
    /\ up' = TRUE
    /\ setting' = Default
    /\ UNCHANGED <<client, thread, queue, view, record>>

-----------------------------------------------------------------------------

Init ==
    /\ ros = FALSE /\ bridge = FALSE /\ calls = 0
    /\ thread = [t \in Thread |-> Free]
    /\ queue = [s \in Service |-> <<>>]
    /\ up = TRUE /\ setting = Default
    /\ view = [s \in Setting |-> <<"?">>]
    /\ accepted = [j \in Job |-> 0]
    /\ told = [j \in Job |-> [answer \in {"yes", "unclear"} |-> 0]]
    /\ sure = {}

Handle(t) ==
    \/ get_bridge(t) \/ InitRos(t) \/ SetBridge(t)
    \/ Send(t) \/ NotThere(t) \/ Answered(t) \/ TimedOut(t)

Next ==
    \/ \E t \in Thread : Handle(t) \/ \E request \in Request : Begin(t, request)
    \/ \E s \in Service : Serve(s)
    \/ Crash \/ Start

Spec == Init /\ [][Next]_vars

=============================================================================

----------------------- MODULE ServiceCallsProperties -----------------------
(***************************************************************************)
(* What callers of the services may rely on.                               *)
(***************************************************************************)
EXTENDS ServiceCalls

\* Answers of the node about job j that are on their way to the caller.
Pending(j) ==
    {t \in Thread : /\ thread[t].pc = "waiting"
                    /\ thread[t].request.service = "submit_task"
                    /\ thread[t].request.value = <<j>>
                    /\ thread[t].reply # <<>> /\ thread[t].reply[1]}

\* The books of callers and node agree: HTTP 200 means the node took the job,
\* and the node never takes one more often than callers were told so or were
\* left without its word (main.py, ros_bridge.py).
AnswersAddUp ==
    \A j \in Job :
        /\ told[j]["yes"] <= accepted[j]
        /\ accepted[j] <= told[j]["yes"] + told[j]["unclear"] + Cardinality(Pending(j))

\* A caller who repeats a job only after "no" - no robot, no fleet - has it
\* accepted once, whichever threads, timeouts and restarts there are: a timeout
\* or HTTP 500 is never reported as "no" (submit_task, _spin_future).
AcceptedOnce == \A j \in Job : told[j]["unclear"] = 0 => accepted[j] <= 1

\* What the console shows is what the node runs, after a call that was
\* answered and crossed no other, until somebody calls again or the node dies,
\* also when loading the second of two plugins failed (set_plugins, set_mode).
ShowsWhatRuns == up => \A s \in sure : view[s] = setting[s]

-----------------------------------------------------------------------------
(* The inductive invariant behind these                                    *)

\* What settings are named.
Name ==
    {"d", "t", "PATROL", "STOP", "?"}
    \cup {plugins[1] : plugins \in Plugins} \cup {plugins[2] : plugins \in Plugins}

Step ==
    [pc : {"entered", "starting", "building", "bridged", "waiting"}, number : Nat,
     request : Request, alone : BOOLEAN,
     reply : {<<>>} \cup (BOOLEAN \X Seq(Name))]

TypeOK ==
    /\ calls \in Nat /\ up \in BOOLEAN
    /\ thread \in [Thread -> {Free} \cup Step]
    /\ queue \in [Service -> Seq(Nat \X Request)]
    /\ setting \in [Setting -> Seq(Name)]
    /\ setting["set_plugins"] \in Name \X Name
    /\ view \in [Setting -> Seq(Name)]
    /\ accepted \in [Job -> Nat] /\ told \in [Job -> [{"yes", "unclear"} -> Nat]]
    /\ sure \subseteq Setting

Busy(t) == thread[t].pc # "free"

Asks(t, service) ==
    thread[t].pc = "waiting" /\ thread[t].request.service = service

\* The place of the i-th request of a queue, and its number.
Places(service) == 1..Len(queue[service])

NumberAt(service, i) == queue[service][i][1]

\* Each HTTP request has a number of its own.  One that is queued is the
\* request of nobody, or of a thread that waits and has no answer yet.
NumbersTell ==
    /\ \A t \in Thread : Busy(t) =>
          /\ thread[t].number \in 1..calls
          /\ thread[t].pc # "waiting" => thread[t].reply = <<>>
    /\ \A t, o \in Thread :
          Busy(t) /\ Busy(o) /\ thread[t].number = thread[o].number => t = o
    /\ \A s \in Service : \A i \in Places(s) :
          /\ NumberAt(s, i) \in 1..calls /\ queue[s][i][2].service = s
          /\ \A k \in Places(s) : NumberAt(s, i) = NumberAt(s, k) => i = k
          /\ \A t \in Thread : Busy(t) /\ thread[t].number = NumberAt(s, i) =>
                /\ thread[t].pc = "waiting" /\ thread[t].reply = <<>>
                /\ thread[t].request = queue[s][i][2]

\* Requests to do job j which the node has before it and whose callers have
\* given up.
Orphans(j) ==
    {n \in 1..calls :
        /\ \E i \in Places("submit_task") :
              /\ NumberAt("submit_task", i) = n
              /\ queue["submit_task"][i][2].value = <<j>>
        /\ \A t \in Thread : Busy(t) => thread[t].number # n}

\* AnswersAddUp, with what is on its way in both directions.
BooksBalance ==
    \A j \in Job :
        /\ told[j]["yes"] + Cardinality(Pending(j)) <= accepted[j]
        /\ accepted[j] + Cardinality(Orphans(j))
              <= told[j]["yes"] + told[j]["unclear"] + Cardinality(Pending(j))

BusyWith(t, j) ==
    /\ Busy(t)
    /\ thread[t].request.service = "submit_task" /\ thread[t].request.value = <<j>>

\* No job has two callers, and who was told "yes" does not call again.
OneCaller ==
    \A j \in Job :
        /\ told[j]["yes"] <= 1
        /\ told[j]["yes"] = 1 => \A t \in Thread : ~BusyWith(t, j)
        /\ \A t, o \in Thread : BusyWith(t, j) /\ BusyWith(o, j) => t = o

\* A call that crosses no other is the last one in the queue, and once it is
\* answered nothing is left there that could change the setting again; nor is
\* there for a setting the console is sure of.
CallsApart ==
    /\ \A t \in Thread, s \in Service : Asks(t, s) /\ thread[t].alone =>
          /\ up
          /\ \A o \in Thread \ {t} : ~Asks(o, s)
          /\ thread[t].reply = <<>> =>
                queue[s] # <<>> /\ NumberAt(s, Len(queue[s])) = thread[t].number
          /\ thread[t].reply # <<>> =>
                queue[s] = <<>> /\ (s \in Setting => setting[s] = thread[t].reply[2])
    /\ \A s \in sure :
          /\ up /\ queue[s] = <<>> /\ view[s] = setting[s]
          /\ \A t \in Thread : ~Asks(t, s)

CallsInv == TypeOK /\ NumbersTell /\ BooksBalance /\ OneCaller /\ CallsApart

-----------------------------------------------------------------------------
(* Liveness: nothing is assumed of the node; a thread goes through its     *)
(* steps, the last of which is the timeout.                                *)

FairSpec == Spec /\ \A t \in Thread : WF_vars(Handle(t))

\* Every HTTP request is answered, whether the node serves it, forgets it or
\* dies.
EveryCallEnds == \A t \in Thread : (thread[t].pc # "free") ~> (thread[t].pc = "free")

=============================================================================

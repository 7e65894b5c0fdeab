------------------------------ MODULE CharLabs ------------------------------
(***************************************************************************)
(* Drivers with a character device, while they are loaded and unloaded:    *)
(* simple_char, simple_ioctl, simple_param and ch2 of Lab03 with their     *)
(* applications, and the init and exit functions of the three drivers of   *)
(* Lab11, of KU_IPC and of KU_SnA, whose calls and handler have modules of *)
(* their own.  Opens come at any time, and no file operations name an      *)
(* owner, so a module can be unloaded while its device is open.            *)
(***************************************************************************)
EXTENDS LabModule, Integers

CONSTANT Start          \* the numbers insmod may set

VARIABLES
    ready,      \* what there is: "cdev", the device; "data" of the calls
    result,     \* ch2's number, simple_param's my_id, or KU_SnA's app_state
    at,         \* where each application is
    fd,         \* its open file, "none" or "failed"
    made,       \* the ioctls or writes it has made
    loaded,     \* the number its present ioctl has read
    printed,    \* what it has printed
    disturbed   \* auxiliary: another one has changed the number meanwhile

app == <<at, fd, made, loaded, printed, disturbed>>
chars == <<ready, result, app>>

-----------------------------------------------------------------------------
(* Mutant: init of simple_rculist adds its device and leaves it at that.   *)
NoList == <<"cdev_add">>

simple_char_init == <<"cdev_add">>
simple_ioctl_init == <<"cdev_add">>
simple_param_init == <<"cdev_add">>
ch2_init == <<"cdev_add">>
simple_rcu_init == <<"cdev_add", "data">>
simple_rwlock_init == <<"cdev_add", "data">>
simple_rculist_init == <<"cdev_add", "data">>
ku_ipc_init == <<"cdev_add", "data">>
ku_SnA_init == <<"cdev_add", "gpio_request", "request_irq">>

CharInitCalls ==
    [simple_char |-> simple_char_init, simple_ioctl |-> simple_ioctl_init,
     simple_param |-> simple_param_init, ch2 |-> ch2_init,
     simple_rcu |-> simple_rcu_init, simple_rwlock |-> simple_rwlock_init,
     simple_rculist |-> simple_rculist_init, ku_ipc |-> ku_ipc_init,
     ku_SnA |-> ku_SnA_init]

CharDrivers == DOMAIN CharInitCalls

(* The records of simple_rculist are taken off a list that stays a list.   *)
simple_char_exit == <<"cdev_del">>
simple_ioctl_exit == <<"cdev_del">>
simple_param_exit == <<"cdev_del">>
ch2_exit == <<"cdev_del">>
simple_rcu_exit == <<"kfree", "cdev_del">>
simple_rwlock_exit == <<"kfree", "cdev_del">>
simple_rculist_exit == <<"cdev_del">>
ku_ipc_exit == <<"cdev_del">>
ku_SnA_exit ==
    <<"cdev_del", "free_irq", "synchronize", "set_low", "gpio_free">>

CharExitCalls ==
    [simple_char |-> simple_char_exit, simple_ioctl |-> simple_ioctl_exit,
     simple_param |-> simple_param_exit, ch2 |-> ch2_exit,
     simple_rcu |-> simple_rcu_exit, simple_rwlock |-> simple_rwlock_exit,
     simple_rculist |-> simple_rculist_exit, ku_ipc |-> ku_ipc_exit,
     ku_SnA |-> ku_SnA_exit]

(* The drivers whose calls follow a pointer that init sets.                *)
Pointed == {"simple_rcu", "simple_rwlock", "simple_rculist", "ku_ipc"}

-----------------------------------------------------------------------------
(* The calls the applications make, one after the other.                   *)
Get == [op |-> "get", arg |-> 0]
Op(o, x) == [op |-> o, arg |-> x]

ch2_app ==
    <<Op("set", 200), Get, Op("add", 300), Get, Op("mul", 100), Get>>
simple_param_app == <<Op("set", 201411303), Get>>
simple_ioctl_app == <<Op("ioctl1", 200), Op("ioctl2", 200)>>
simple_char_app == <<Op("write", 30)>>
ku_SnA_app == <<Op("set", 1)>>

App ==
    CASE driver = "ch2" -> ch2_app
      [] driver = "simple_param" -> simple_param_app
      [] driver = "simple_ioctl" -> simple_ioctl_app
      [] driver = "simple_char" -> simple_char_app
      [] driver = "ku_SnA" -> ku_SnA_app
      [] driver \in Pointed -> <<Op("use", 0)>>
      [] OTHER -> <<>>

Call(u) == App[made[u] + 1]

CharInit ==
    /\ ready = {}
    /\ IF driver \in {"ch2", "simple_param"} THEN result \in Start
       ELSE result = 0
    /\ at = [u \in User |-> "start"] /\ fd = [u \in User |-> "none"]
    /\ made = [u \in User |-> 0] /\ loaded = [u \in User |-> 0]
    /\ printed = [u \in User |-> <<>>]
    /\ disturbed = [u \in User |-> FALSE]

-----------------------------------------------------------------------------
CharCalls ==
    \/ CommonCalls /\ UNCHANGED chars
    \/ /\ \/ Calls("cdev_add") /\ ready' = ready \cup {"cdev"}
          \/ Calls("cdev_del") /\ ready' = ready \ {"cdev"}
          \/ Calls("data") /\ ready' = ready \cup {"data"}
          \/ Calls("kfree") /\ ready' = ready \ {"data"}
       /\ UNCHANGED <<pins, interrupt, bug, result, app>>

(* The handler of KU_SnA uses the speaker, if the switch is enabled.       *)
ku_SnA_isr ==
    /\ isr /\ ~bug
    /\ \/ result = 1 /\ ~level /\ SetPin(TRUE) /\ isr' = TRUE
       \/ level /\ SetPin(FALSE) /\ isr' = FALSE
       \/ result = 0 /\ ~level /\ UNCHANGED pins /\ isr' = FALSE
    /\ UNCHANGED <<driver, stage, calls, line, edge, bug, chars>>

CharIsr == driver = "ku_SnA" /\ ((IsrEnter /\ UNCHANGED chars) \/ ku_SnA_isr)

Goes(u, from, to) ==
    /\ ~bug
    /\ at[u] = from /\ at' = [at EXCEPT ![u] = to]
    /\ UNCHANGED <<code, interrupt, ready>>

(* Without a device open fails; the applications do not look.              *)
Open(u) ==
    /\ driver \in CharDrivers
    /\ Goes(u, "start", "next")
    /\ fd' = [fd EXCEPT ![u] = IF "cdev" \in ready THEN "open" ELSE "failed"]
    /\ UNCHANGED <<bug, result, made, loaded, printed, disturbed>>

Missing == driver \in Pointed /\ "data" \notin ready

(* The kernel faults: a call into a module that is gone, or by a pointer   *)
(* that is not set yet or has been freed.                                  *)
Fault(u) ==
    /\ fd[u] = "open"
    /\ \/ stage = "gone" /\ at[u] \in {"next", "in"}
       \/ Missing /\ at[u] = "next" /\ made[u] < Len(App)
    /\ Goes(u, at[u], "fault")
    /\ bug' = TRUE
    /\ UNCHANGED <<result, fd, made, loaded, printed, disturbed>>

(* The handlers up to where get, add and mul have read the number. *)
Enter(u) ==
    /\ fd[u] = "open" /\ stage # "gone"
    /\ made[u] < Len(App) /\ ~Missing
    /\ Goes(u, "next", "in")
    /\ loaded' = [loaded EXCEPT ![u] = result]
    /\ UNCHANGED <<bug, result, fd, made, printed, disturbed>>

(* Mutant: mul adds.                                                       *)
AlwaysAdds(c, n) == IF c.op = "set" THEN c.arg ELSE n + c.arg

(* What the handlers make of the number n that they have read. *)
ch2_ioctl(c, n) ==
    CASE c.op = "set" -> c.arg
      [] c.op = "add" -> n + c.arg
      [] c.op = "mul" -> n * c.arg
      [] c.op = "get" -> n

simple_param_ioctl(c, n) == IF c.op = "set" THEN c.arg ELSE n

ku_ioctl(c, n) == c.arg

Number(c, n) ==
    CASE driver = "ch2" -> ch2_ioctl(c, n)
      [] driver = "simple_param" -> simple_param_ioctl(c, n)
      [] driver = "ku_SnA" -> ku_ioctl(c, n)
      [] OTHER -> n

(* libc takes these answers for an errno.                                  *)
Answer(r) == IF r \in -4095..-1 THEN -1 ELSE r

(* A call has returned r; what get answers is printed. *)
Returned(u, r) ==
    /\ made' = [made EXCEPT ![u] = @ + 1]
    /\ printed' = [printed EXCEPT ![u] =
                  IF Call(u).op = "get" THEN Append(@, Answer(r)) ELSE @]

(* The rest: the store, and back in the application. *)
Leave(u) ==
    LET n == Number(Call(u), loaded[u])
        store == Call(u).op \in {"set", "add", "mul"}
    IN  /\ at[u] = "in" /\ stage # "gone"
        /\ Goes(u, "in", "next")
        /\ result' = IF store THEN n ELSE result
        /\ disturbed' =
              [v \in User |-> disturbed[v] \/ (store /\ v # u
                                    /\ (at[v] = "in" \/ made[v] > 0))]
        /\ Returned(u, n)
        /\ UNCHANGED <<bug, fd, loaded>>

(* What was not opened answers every call with -1.                         *)
CallFails(u) ==
    /\ fd[u] = "failed" /\ made[u] < Len(App)
    /\ Goes(u, "next", "next")
    /\ Returned(u, -1)
    /\ UNCHANGED <<bug, result, fd, loaded, disturbed>>

Close(u) ==
    /\ fd[u] = "open" => stage # "gone"
    /\ made[u] = Len(App)
    /\ Goes(u, "next", "done")
    /\ UNCHANGED <<bug, result, fd, made, loaded, printed, disturbed>>

AppStep(u) ==
    Open(u) \/ Fault(u) \/ Enter(u) \/ Leave(u) \/ CallFails(u) \/ Close(u)

CharNext ==
    /\ driver \in CharDrivers
    /\ \/ CharCalls \/ CharIsr
       \/ driver = "ku_SnA" /\ Edge /\ UNCHANGED chars
       \/ Unload(CharExitCalls[driver]) /\ UNCHANGED chars
       \/ \E u \in User : AppStep(u)

CharTypeOK ==
    /\ ready \subseteq {"cdev", "data"}
    /\ result \in Int /\ loaded \in [User -> Int]
    /\ at \in [User -> {"start", "next", "in", "done", "fault"}]
    /\ fd \in [User -> {"none", "open", "failed"}]
    /\ made \in [User -> 0..6] /\ printed \in [User -> Seq(Int)]
    /\ disturbed \in [User -> BOOLEAN]

=============================================================================

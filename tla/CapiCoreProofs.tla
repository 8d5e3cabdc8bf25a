----------------------------- MODULE CapiCoreProofs -----------------------------
(* Theorems about the capicore registries, for any number of devices, *)
(* applications, slots and messages.                                  *)
EXTENDS CapiCoreProps, ListLemmas, FiniteSetTheorems

(* The bit that capi_release visits next is one the application owns.      *)
LEMMA ReleaseNext ==
  ASSUME TypeOK, NEW a \in Appls, capi_release_next(a)
  PROVE  \E i \in Slots :
           /\ i \in Held(a) /\ \A j \in Held(a) : i <= j
           /\ cursor' = [cursor EXCEPT ![a] = i]
           /\ at' = [at EXCEPT ![a] = capi_devs_table[i]]
           /\ \/ capi_devs_table[i] \in capi_devs_list /\ Goto(a, "loop", "in_release")
              \/ capi_devs_table[i] \notin capi_devs_list /\ Goto(a, "loop", "put")
           /\ UNCHANGED <<registry, sems, appl, driver, walked>>
  <1>1. Held(a) \in SUBSET Nat /\ Held(a) \subseteq Slots
    BY SizesAssumption DEF Held, TypeOK, Slots
  <1>2. \E i \in Held(a) : \A j \in Held(a) : i <= j
    BY <1>1, LeastExists DEF capi_release_next, capi_device_listed
  <1> QED
    BY <1>1, <1>2 DEF capi_release_next, capi_device_listed

(* add_capi_device returns a free slot, or 0 when there is none. *)
LEMMA AddDevice ==
  /\ add_capi_device \in 0 .. MaxDevs
  /\ add_capi_device # 0 =>
       add_capi_device \in Slots /\ capi_devs_table[add_capi_device] = NoDev
  <1> DEFINE free == {i \in Slots : capi_devs_table[i] = NoDev}
  <1>1. free \in SUBSET Nat /\ free \subseteq Slots
    BY SizesAssumption DEF Slots
  <1>2. CASE free = {}
    BY <1>2, SizesAssumption DEF add_capi_device
  <1>3. CASE free # {}
    <2>1. \E i \in free : \A j \in free : i <= j
      BY <1>1, <1>3, LeastExists
    <2>2. add_capi_device \in free
      BY <1>3, <2>1 DEF add_capi_device
    <2> QED
      BY <2>2, SizesAssumption DEF Slots
  <1> QED
    BY <1>2, <1>3

(* Changing one value keeps the type of an array, even if the index should *)
(* be null.                                                                *)
LEMMA ExceptType ==
  ASSUME NEW S, NEW T, NEW f \in [S -> T], NEW x, NEW e, x \in S => e \in T
  PROVE  [f EXCEPT ![x] = e] \in [S -> T]
  OBVIOUS

-------------------------------------------------------------------------------
(* Type correctness *)

(* Every variable keeps its type: in particular no step of any thread      *)
(* applies an array or a list to a null device, and numbers stay in range. *)
LEMMA TypeInit == Init => TypeOK
  BY SizesAssumption, ThreadsAssumption DEF Init, TypeOK, Slots, Threads, DevPC, ApplPC

LEMMA TypeNext == TypeOK /\ ListLocking /\ ListWalks /\ [Next]_vars => TypeOK'
  <1> SUFFICES ASSUME TypeOK, ListLocking, ListWalks, [Next]_vars PROVE TypeOK'
    OBVIOUS
  <1> USE SizesAssumption, ThreadsAssumption
      DEF TypeOK, ListLocking, ListWalks, Slots, Threads, DevPC, ApplPC, Operating,
          Held, Goto, registry, sems, lists,
          appl, driver, locals
  <1>1. ASSUME NEW d \in Devs, bind_capi_device(d) PROVE TypeOK'
    <2>1. CASE add_capi_device # 0 /\ Goto(d, "bind", "walk") /\ LockList(d)
          /\ capi_devs_table' = [capi_devs_table EXCEPT ![add_capi_device] = d]
      BY <1>1, <2>1, AddDevice DEF bind_capi_device, CanWriteList, ListTurn, LockList
    <2>2. CASE Goto(d, "bind", "failed") /\ PassList /\ UNCHANGED capi_devs_table
      BY <1>1, <2>2, AddDevice DEF bind_capi_device, CanWriteList, ListTurn, PassList
    <2> QED
      BY <1>1, <2>1, <2>2 DEF bind_capi_device
  <1>2. ASSUME NEW d \in Devs, register_next_appl(d) PROVE TypeOK'
    <2>1. PICK a \in Appls :
             /\ walked' = [walked EXCEPT ![d] = @ \cup {a}]
             /\ offered' = [offered EXCEPT ![d] = @ \cup {a}]
             /\ \/ /\ Goto(d, "walk", "get")
                   /\ known' = [known EXCEPT ![d] = @ \cup {a}]
                   /\ devs' = [devs EXCEPT ![a] = @ \cup {id[d]}]
                \/ Goto(d, "walk", "walk") /\ UNCHANGED <<known, devs>>
      BY <1>2 DEF register_next_appl
    <2>2. CASE /\ Goto(d, "walk", "get")
               /\ known' = [known EXCEPT ![d] = @ \cup {a}]
               /\ devs' = [devs EXCEPT ![a] = @ \cup {id[d]}]
      BY <1>2, <2>1, <2>2 DEF register_next_appl
    <2>3. CASE Goto(d, "walk", "walk") /\ UNCHANGED <<known, devs>>
      BY <1>2, <2>1, <2>3 DEF register_next_appl
    <2> QED
      BY <2>1, <2>2, <2>3
  <1>3. ASSUME NEW d \in Devs, register_next_appl_get(d) PROVE TypeOK'
    BY <1>3 DEF register_next_appl_get, capi_device_get
  <1>4. ASSUME NEW d \in Devs, bind_capi_device_open(d) PROVE TypeOK'
    BY <1>4 DEF bind_capi_device_open, UnlockDev
  <1>5. ASSUME NEW d \in Devs, bind_capi_device_done(d) PROVE TypeOK'
    BY <1>5 DEF bind_capi_device_done, UnlockList
  <1>6. ASSUME NEW d \in Devs, capi_device_register_sysfs(d) PROVE TypeOK'
    <2>1. CASE Goto(d, "sysfs", "registered") /\ UNCHANGED list_queue
      BY <1>6, <2>1 DEF capi_device_register_sysfs, WaitForList
    <2>2. CASE Goto(d, "sysfs", "fail_unlist") /\ WaitForList(d)
      BY <1>6, <2>2 DEF capi_device_register_sysfs, WaitForList
    <2> QED
      BY <1>6, <2>1, <2>2 DEF capi_device_register_sysfs
  <1>7. ASSUME NEW d \in Devs, unregister_capi_device(d) PROVE TypeOK'
    <2>1. CASE Goto(d, "unlist", "quiesce")
      BY <1>7, <2>1 DEF unregister_capi_device, CanWriteList, ListTurn, PassList
    <2>2. CASE Goto(d, "fail_unlist", "fail_quiesce")
      BY <1>7, <2>2 DEF unregister_capi_device, CanWriteList, ListTurn, PassList
    <2> QED
      BY <1>7, <2>1, <2>2 DEF unregister_capi_device
  <1>8. ASSUME NEW d \in Devs, unregister_capi_device_quiesce(d) PROVE TypeOK'
    <2>1. CASE Goto(d, "quiesce", "count")
      BY <1>8, <2>1 DEF unregister_capi_device_quiesce, LockDev
    <2>2. CASE Goto(d, "fail_quiesce", "fail_count")
      BY <1>8, <2>2 DEF unregister_capi_device_quiesce, LockDev
    <2> QED
      BY <1>8, <2>1, <2>2 DEF unregister_capi_device_quiesce
  <1>9. ASSUME NEW d \in Devs, unregister_capi_device_count(d) PROVE TypeOK'
    <2>1. CASE Goto(d, "count", "unregistered")
      BY <1>9, <2>1 DEF unregister_capi_device_count
    <2>2. CASE Goto(d, "fail_count", "failed")
      BY <1>9, <2>2 DEF unregister_capi_device_count
    <2> QED
      BY <1>9, <2>1, <2>2 DEF unregister_capi_device_count
  <1>10. ASSUME NEW d \in Devs, capi_device_alloc(d) PROVE TypeOK'
    BY <1>10 DEF capi_device_alloc
  <1>11. ASSUME NEW d \in Devs, capi_device_register(d) PROVE TypeOK'
    BY <1>11 DEF capi_device_register, WaitForList
  <1>12. ASSUME NEW d \in Devs, capi_device_unregister(d) PROVE TypeOK'
    BY <1>12 DEF capi_device_unregister, WaitForList
  <1>13. ASSUME NEW d \in Devs, driver_put(d) PROVE TypeOK'
    <2>1. CASE Goto(d, "allocated", "none")
      BY <1>13, <2>1 DEF driver_put, capi_device_put
    <2>2. CASE Goto(d, "failed", "none")
      BY <1>13, <2>2 DEF driver_put, capi_device_put
    <2>3. CASE Goto(d, "unregistered", "none")
      BY <1>13, <2>3 DEF driver_put, capi_device_put
    <2> QED
      BY <1>13, <2>1, <2>2, <2>3 DEF driver_put
  <1>14. ASSUME NEW a \in Appls, bind_capi_appl(a) PROVE TypeOK'
    <2>1. CASE Goto(a, "bind", "walk") /\ LockList(a)
          /\ capi_appls_list' = capi_appls_list \cup {a}
      BY <1>14, <2>1 DEF bind_capi_appl, CanReadList, ListTurn, LockList, PassList
    <2>2. CASE Goto(a, "bind", "unregistered") /\ PassList /\ UNCHANGED capi_appls_list
      BY <1>14, <2>2 DEF bind_capi_appl, CanReadList, ListTurn, LockList, PassList
    <2> QED
      BY <1>14, <2>1, <2>2 DEF bind_capi_appl
  <1>15. ASSUME NEW a \in Appls, register_next_device(a) PROVE TypeOK'
    BY <1>15 DEF register_next_device
  <1>16. ASSUME NEW a \in Appls, register_next_device_return(a) PROVE TypeOK'
    <2>1. CASE Goto(a, "in_register", "get")
          /\ known' = [known EXCEPT ![at[a]] = @ \cup {a}]
          /\ devs' = [devs EXCEPT ![a] = @ \cup {id[at[a]]}]
      BY <1>16, <2>1 DEF register_next_device_return
    <2>2. CASE Goto(a, "in_register", "walk") /\ UNCHANGED <<known, devs>>
      BY <1>16, <2>2 DEF register_next_device_return
    <2> QED
      BY <1>16, <2>1, <2>2 DEF register_next_device_return
  <1>17. ASSUME NEW a \in Appls, register_next_device_get(a) PROVE TypeOK'
    BY <1>17 DEF register_next_device_get, capi_device_get
  <1>18. ASSUME NEW a \in Appls, bind_capi_appl_done(a) PROVE TypeOK'
    BY <1>18 DEF bind_capi_appl_done, UnlockList
  <1>19. ASSUME NEW a \in Appls, capi_put_message_trylock(a) PROVE TypeOK'
    <2>1. CASE Goto(a, "trylock", "in_put") /\ LockDev(a, at[a]) /\ UNCHANGED at
      <3>1. dev_sem' \in [Devs -> SUBSET Threads]
        <4>1. /\ dev_sem \in [Devs -> SUBSET Threads]
              /\ at[a] \in Devs => dev_sem[at[a]] \cup {a} \in SUBSET Threads
          OBVIOUS
        <4>2. [dev_sem EXCEPT ![at[a]] = dev_sem[at[a]] \cup {a}]
                \in [Devs -> SUBSET Threads]
          BY ONLY <4>1, ExceptType
        <4> QED
          BY <2>1, <4>2 DEF LockDev
      <3> QED
        BY <1>19, <2>1, <3>1 DEF capi_put_message_trylock
    <2>2. CASE Goto(a, "trylock", "idle") /\ UNCHANGED dev_sem
          /\ at' = [at EXCEPT ![a] = NoDev]
      BY <1>19, <2>2 DEF capi_put_message_trylock
    <2> QED
      BY <1>19, <2>1, <2>2 DEF capi_put_message_trylock
  <1>20. ASSUME NEW a \in Appls, capi_put_message_return(a) PROVE TypeOK'
    BY <1>20 DEF capi_put_message_return, UnlockDev
  <1>21. ASSUME NEW a \in Appls, capi_get_profile(a) PROVE TypeOK'
    <2>1. CASE Goto(a, "in_query", "idle")
      BY <1>21, <2>1 DEF capi_get_profile, UnlockDev
    <2>2. CASE Goto(a, "in_query", "unregistered")
      BY <1>21, <2>2 DEF capi_get_profile, UnlockDev
    <2> QED
      BY <1>21, <2>1, <2>2 DEF capi_get_profile
  <1>22. ASSUME NEW a \in Appls, capi_release_lock(a) PROVE TypeOK'
    BY <1>22 DEF capi_release_lock, CanReadList, ListTurn, LockList
  <1>23. ASSUME NEW a \in Appls, capi_release_next(a) PROVE TypeOK'
    <2>1. PICK i \in Slots :
             /\ cursor' = [cursor EXCEPT ![a] = i]
             /\ at' = [at EXCEPT ![a] = capi_devs_table[i]]
             /\ \/ Goto(a, "loop", "in_release")
                \/ Goto(a, "loop", "put")
             /\ UNCHANGED <<registry, sems, appl, driver, walked>>
      BY <1>23, ReleaseNext
    <2>2. CASE Goto(a, "loop", "in_release")
      BY <2>1, <2>2
    <2>3. CASE Goto(a, "loop", "put")
      BY <2>1, <2>3
    <2> QED
      BY <2>1, <2>2, <2>3
  <1>24. ASSUME NEW a \in Appls, driver_release(a) PROVE TypeOK'
    BY <1>24 DEF driver_release
  <1>25. ASSUME NEW a \in Appls, driver_release_return(a) PROVE TypeOK'
    BY <1>25 DEF driver_release_return
  <1>26. ASSUME NEW a \in Appls, capi_release_put(a) PROVE TypeOK'
    <2>1. refcount' \in [Devs -> Int]
      <3>1. refcount \in [Devs -> Int] /\ (at[a] \in Devs => refcount[at[a]] - 1 \in Int)
        OBVIOUS
      <3>2. [refcount EXCEPT ![at[a]] = refcount[at[a]] - 1] \in [Devs -> Int]
        BY ONLY <3>1, ExceptType
      <3> QED
        BY <1>26, <3>2 DEF capi_release_put, capi_device_put
    <2>2. capi_devs_table' \in [Slots -> Devs \cup {NoDev}]
      BY <1>26 DEF capi_release_put, capi_device_put
    <2> QED
      BY <1>26, <2>1, <2>2 DEF capi_release_put
  <1>27. ASSUME NEW a \in Appls, capi_release_done(a) PROVE TypeOK'
    BY <1>27 DEF capi_release_done, UnlockList
  <1>28. ASSUME NEW a \in Appls, capi_register(a) PROVE TypeOK'
    BY <1>28 DEF capi_register, WaitForList
  <1>29. ASSUME NEW a \in Appls, capi_put_message(a) PROVE TypeOK'
    BY <1>29 DEF capi_put_message
  <1>30. ASSUME NEW a \in Appls, capi_get_message(a) PROVE TypeOK'
    BY <1>30 DEF capi_get_message
  <1>31. ASSUME NEW a \in Appls, try_get_capi_device_by_id(a) PROVE TypeOK'
    <2>1. CASE Goto(a, "unregistered", "in_query")
      BY <1>31, <2>1 DEF try_get_capi_device_by_id, LockDev
    <2>2. CASE Goto(a, "idle", "in_query")
      BY <1>31, <2>2 DEF try_get_capi_device_by_id, LockDev
    <2> QED
      BY <1>31, <2>1, <2>2 DEF try_get_capi_device_by_id
  <1>32. ASSUME NEW a \in Appls, capi_release(a) PROVE TypeOK'
    BY <1>32 DEF capi_release, WaitForList
  <1>33. ASSUME NEW d \in Devs, NEW a \in Appls, enter_appl(d, a) PROVE TypeOK'
    BY <1>33 DEF enter_appl
  <1>34. ASSUME NEW d \in Devs, NEW a \in Appls, capi_appl_enqueue_message(d, a) PROVE TypeOK'
    BY <1>34 DEF capi_appl_enqueue_message, leave_appl
  <1>35. ASSUME NEW d \in Devs, NEW a \in Appls, capi_appl_signal(d, a) PROVE TypeOK'
    BY <1>35 DEF capi_appl_signal, leave_appl
  <1>36. ASSUME NEW d \in Devs, NEW a \in Appls, capi_appl_signal_error(d, a) PROVE TypeOK'
    BY <1>36 DEF capi_appl_signal_error, leave_appl
  <1>37. CASE UNCHANGED vars
    BY <1>37 DEF vars
  <1> QED
    BY <1>1, <1>2, <1>3, <1>4, <1>5, <1>6, <1>7, <1>8, <1>9, <1>10, <1>11, <1>12, <1>13, <1>14, <1>15, <1>16, <1>17, <1>18, <1>19, <1>20, <1>21, <1>22, <1>23, <1>24, <1>25, <1>26, <1>27, <1>28, <1>29, <1>30, <1>31, <1>32, <1>33, <1>34, <1>35, <1>36, <1>37
    DEF Next, DriverGoesOn, DriverBegins, ApplGoesOn, ApplBegins, capi_appl_call

-------------------------------------------------------------------------------
(* The list semaphore *)

LEMMA ListLockingNext == TypeOK /\ ListLocking /\ [Next]_vars => ListLocking'
  <1> SUFFICES ASSUME TypeOK, ListLocking, [Next]_vars PROVE ListLocking'
    OBVIOUS
  <1> USE ThreadsAssumption
      DEF TypeOK, ListLocking, Threads, DevPC, ApplPC, Goto, registry, sems, lists,
          appl, driver, locals
  <1>1. ASSUME NEW d \in Devs, bind_capi_device(d) PROVE ListLocking'
    <2>1. CASE add_capi_device # 0 /\ Goto(d, "bind", "walk") /\ LockList(d)
          /\ capi_devs_table' = [capi_devs_table EXCEPT ![add_capi_device] = d]
      BY <1>1, <2>1 DEF bind_capi_device, CanWriteList, ListTurn, LockList, PassList
    <2>2. CASE Goto(d, "bind", "failed") /\ PassList /\ UNCHANGED capi_devs_table
      BY <1>1, <2>2 DEF bind_capi_device, CanWriteList, ListTurn, LockList, PassList
    <2> QED
      BY <1>1, <2>1, <2>2 DEF bind_capi_device
  <1>2. ASSUME NEW d \in Devs, register_next_appl(d) PROVE ListLocking'
    <2>1. CASE Goto(d, "walk", "get")
      BY <1>2, <2>1 DEF register_next_appl
    <2>2. CASE Goto(d, "walk", "walk")
      BY <1>2, <2>2 DEF register_next_appl
    <2> QED
      BY <1>2, <2>1, <2>2 DEF register_next_appl
  <1>3. ASSUME NEW d \in Devs, register_next_appl_get(d) PROVE ListLocking'
    BY <1>3 DEF register_next_appl_get, capi_device_get
  <1>4. ASSUME NEW d \in Devs, bind_capi_device_open(d) PROVE ListLocking'
    BY <1>4 DEF bind_capi_device_open, UnlockDev
  <1>5. ASSUME NEW d \in Devs, bind_capi_device_done(d) PROVE ListLocking'
    BY <1>5 DEF bind_capi_device_done, UnlockList
  <1>6. ASSUME NEW d \in Devs, capi_device_register_sysfs(d) PROVE ListLocking'
    <2>1. CASE Goto(d, "sysfs", "registered") /\ UNCHANGED list_queue
      BY <1>6, <2>1 DEF capi_device_register_sysfs, WaitForList
    <2>2. CASE Goto(d, "sysfs", "fail_unlist") /\ WaitForList(d)
      BY <1>6, <2>2 DEF capi_device_register_sysfs, WaitForList
    <2> QED
      BY <1>6, <2>1, <2>2 DEF capi_device_register_sysfs
  <1>7. ASSUME NEW d \in Devs, unregister_capi_device(d) PROVE ListLocking'
    <2>1. CASE Goto(d, "unlist", "quiesce")
      BY <1>7, <2>1 DEF unregister_capi_device, CanWriteList, ListTurn, PassList
    <2>2. CASE Goto(d, "fail_unlist", "fail_quiesce")
      BY <1>7, <2>2 DEF unregister_capi_device, CanWriteList, ListTurn, PassList
    <2> QED
      BY <1>7, <2>1, <2>2 DEF unregister_capi_device
  <1>8. ASSUME NEW d \in Devs, unregister_capi_device_quiesce(d) PROVE ListLocking'
    <2>1. CASE Goto(d, "quiesce", "count")
      BY <1>8, <2>1 DEF unregister_capi_device_quiesce, LockDev
    <2>2. CASE Goto(d, "fail_quiesce", "fail_count")
      BY <1>8, <2>2 DEF unregister_capi_device_quiesce, LockDev
    <2> QED
      BY <1>8, <2>1, <2>2 DEF unregister_capi_device_quiesce
  <1>9. ASSUME NEW d \in Devs, unregister_capi_device_count(d) PROVE ListLocking'
    <2>1. CASE Goto(d, "count", "unregistered")
      BY <1>9, <2>1 DEF unregister_capi_device_count
    <2>2. CASE Goto(d, "fail_count", "failed")
      BY <1>9, <2>2 DEF unregister_capi_device_count
    <2> QED
      BY <1>9, <2>1, <2>2 DEF unregister_capi_device_count
  <1>10. ASSUME NEW d \in Devs, capi_device_alloc(d) PROVE ListLocking'
    BY <1>10 DEF capi_device_alloc
  <1>11. ASSUME NEW d \in Devs, capi_device_register(d) PROVE ListLocking'
    BY <1>11 DEF capi_device_register, WaitForList
  <1>12. ASSUME NEW d \in Devs, capi_device_unregister(d) PROVE ListLocking'
    BY <1>12 DEF capi_device_unregister, WaitForList
  <1>13. ASSUME NEW d \in Devs, driver_put(d) PROVE ListLocking'
    <2>1. CASE Goto(d, "allocated", "none")
      BY <1>13, <2>1 DEF driver_put, capi_device_put
    <2>2. CASE Goto(d, "failed", "none")
      BY <1>13, <2>2 DEF driver_put, capi_device_put
    <2>3. CASE Goto(d, "unregistered", "none")
      BY <1>13, <2>3 DEF driver_put, capi_device_put
    <2> QED
      BY <1>13, <2>1, <2>2, <2>3 DEF driver_put
  <1>14. ASSUME NEW a \in Appls, bind_capi_appl(a) PROVE ListLocking'
    <2>1. CASE Goto(a, "bind", "walk") /\ LockList(a)
          /\ capi_appls_list' = capi_appls_list \cup {a}
      BY <1>14, <2>1 DEF bind_capi_appl, CanReadList, ListTurn, LockList, PassList
    <2>2. CASE Goto(a, "bind", "unregistered") /\ PassList /\ UNCHANGED capi_appls_list
      BY <1>14, <2>2 DEF bind_capi_appl, CanReadList, ListTurn, LockList, PassList
    <2> QED
      BY <1>14, <2>1, <2>2 DEF bind_capi_appl
  <1>15. ASSUME NEW a \in Appls, register_next_device(a) PROVE ListLocking'
    BY <1>15 DEF register_next_device
  <1>16. ASSUME NEW a \in Appls, register_next_device_return(a) PROVE ListLocking'
    <2>1. CASE Goto(a, "in_register", "get")
          /\ known' = [known EXCEPT ![at[a]] = @ \cup {a}]
          /\ devs' = [devs EXCEPT ![a] = @ \cup {id[at[a]]}]
      BY <1>16, <2>1 DEF register_next_device_return
    <2>2. CASE Goto(a, "in_register", "walk") /\ UNCHANGED <<known, devs>>
      BY <1>16, <2>2 DEF register_next_device_return
    <2> QED
      BY <1>16, <2>1, <2>2 DEF register_next_device_return
  <1>17. ASSUME NEW a \in Appls, register_next_device_get(a) PROVE ListLocking'
    BY <1>17 DEF register_next_device_get, capi_device_get
  <1>18. ASSUME NEW a \in Appls, bind_capi_appl_done(a) PROVE ListLocking'
    BY <1>18 DEF bind_capi_appl_done, UnlockList
  <1>19. ASSUME NEW a \in Appls, capi_put_message_trylock(a) PROVE ListLocking'
    <2>1. CASE Goto(a, "trylock", "in_put") /\ LockDev(a, at[a]) /\ UNCHANGED at
      BY <1>19, <2>1 DEF capi_put_message_trylock, LockDev
    <2>2. CASE Goto(a, "trylock", "idle") /\ UNCHANGED dev_sem
          /\ at' = [at EXCEPT ![a] = NoDev]
      BY <1>19, <2>2 DEF capi_put_message_trylock, LockDev
    <2> QED
      BY <1>19, <2>1, <2>2 DEF capi_put_message_trylock
  <1>20. ASSUME NEW a \in Appls, capi_put_message_return(a) PROVE ListLocking'
    BY <1>20 DEF capi_put_message_return, UnlockDev
  <1>21. ASSUME NEW a \in Appls, capi_get_profile(a) PROVE ListLocking'
    <2>1. CASE Goto(a, "in_query", "idle")
      BY <1>21, <2>1 DEF capi_get_profile, UnlockDev
    <2>2. CASE Goto(a, "in_query", "unregistered")
      BY <1>21, <2>2 DEF capi_get_profile, UnlockDev
    <2> QED
      BY <1>21, <2>1, <2>2 DEF capi_get_profile
  <1>22. ASSUME NEW a \in Appls, capi_release_lock(a) PROVE ListLocking'
    BY <1>22 DEF capi_release_lock, CanReadList, ListTurn, LockList
  <1>23. ASSUME NEW a \in Appls, capi_release_next(a) PROVE ListLocking'
    <2>1. CASE Goto(a, "loop", "in_release")
      BY <1>23, <2>1 DEF capi_release_next, capi_device_listed
    <2>2. CASE Goto(a, "loop", "put")
      BY <1>23, <2>2 DEF capi_release_next, capi_device_listed
    <2> QED
      BY <1>23, <2>1, <2>2 DEF capi_release_next, capi_device_listed
  <1>24. ASSUME NEW a \in Appls, driver_release(a) PROVE ListLocking'
    BY <1>24 DEF driver_release
  <1>25. ASSUME NEW a \in Appls, driver_release_return(a) PROVE ListLocking'
    BY <1>25 DEF driver_release_return
  <1>26. ASSUME NEW a \in Appls, capi_release_put(a) PROVE ListLocking'
    BY <1>26 DEF capi_release_put, capi_device_put
  <1>27. ASSUME NEW a \in Appls, capi_release_done(a) PROVE ListLocking'
    BY <1>27 DEF capi_release_done, UnlockList
  <1>28. ASSUME NEW a \in Appls, capi_register(a) PROVE ListLocking'
    BY <1>28 DEF capi_register, WaitForList
  <1>29. ASSUME NEW a \in Appls, capi_put_message(a) PROVE ListLocking'
    BY <1>29 DEF capi_put_message
  <1>30. ASSUME NEW a \in Appls, capi_get_message(a) PROVE ListLocking'
    BY <1>30 DEF capi_get_message
  <1>31. ASSUME NEW a \in Appls, try_get_capi_device_by_id(a) PROVE ListLocking'
    <2>1. CASE Goto(a, "unregistered", "in_query")
      BY <1>31, <2>1 DEF try_get_capi_device_by_id, LockDev
    <2>2. CASE Goto(a, "idle", "in_query")
      BY <1>31, <2>2 DEF try_get_capi_device_by_id, LockDev
    <2> QED
      BY <1>31, <2>1, <2>2 DEF try_get_capi_device_by_id
  <1>32. ASSUME NEW a \in Appls, capi_release(a) PROVE ListLocking'
    BY <1>32 DEF capi_release, WaitForList
  <1>33. ASSUME NEW d \in Devs, NEW a \in Appls, enter_appl(d, a) PROVE ListLocking'
    BY <1>33 DEF enter_appl
  <1>34. ASSUME NEW d \in Devs, NEW a \in Appls, capi_appl_enqueue_message(d, a) PROVE ListLocking'
    BY <1>34 DEF capi_appl_enqueue_message, leave_appl
  <1>35. ASSUME NEW d \in Devs, NEW a \in Appls, capi_appl_signal(d, a) PROVE ListLocking'
    BY <1>35 DEF capi_appl_signal, leave_appl
  <1>36. ASSUME NEW d \in Devs, NEW a \in Appls, capi_appl_signal_error(d, a) PROVE ListLocking'
    BY <1>36 DEF capi_appl_signal_error, leave_appl
  <1>37. CASE UNCHANGED vars
    BY <1>37 DEF vars
  <1> QED
    BY <1>1, <1>2, <1>3, <1>4, <1>5, <1>6, <1>7, <1>8, <1>9, <1>10, <1>11, <1>12, <1>13, <1>14, <1>15, <1>16, <1>17, <1>18, <1>19, <1>20, <1>21, <1>22, <1>23, <1>24, <1>25, <1>26, <1>27, <1>28, <1>29, <1>30, <1>31, <1>32, <1>33, <1>34, <1>35, <1>36, <1>37
    DEF Next, DriverGoesOn, DriverBegins, ApplGoesOn, ApplBegins, capi_appl_call

-------------------------------------------------------------------------------
(* The lists and the walks over them *)

LEMMA ListWalksNext == TypeOK /\ ListLocking /\ ListWalks /\ [Next]_vars => ListWalks'
  <1> SUFFICES ASSUME TypeOK, ListLocking, ListWalks, [Next]_vars PROVE ListWalks'
    OBVIOUS
  <1> USE SizesAssumption, ThreadsAssumption
      DEF TypeOK, ListLocking, ListWalks, Slots, Threads, DevPC, ApplPC, Operating,
          Held, Goto, registry, sems, lists,
          appl, driver, locals
  <1>1. ASSUME NEW d \in Devs, bind_capi_device(d) PROVE ListWalks'
    <2>1. CASE add_capi_device # 0 /\ Goto(d, "bind", "walk") /\ LockList(d)
          /\ capi_devs_table' = [capi_devs_table EXCEPT ![add_capi_device] = d]
      BY <1>1, <2>1, AddDevice DEF bind_capi_device, CanWriteList, ListTurn, LockList
    <2>2. CASE Goto(d, "bind", "failed") /\ PassList /\ UNCHANGED capi_devs_table
      BY <1>1, <2>2, AddDevice DEF bind_capi_device, CanWriteList, ListTurn, PassList
    <2> QED
      BY <1>1, <2>1, <2>2 DEF bind_capi_device
  <1>2. ASSUME NEW d \in Devs, register_next_appl(d) PROVE ListWalks'
    <2>1. CASE Goto(d, "walk", "get")
      BY <1>2, <2>1 DEF register_next_appl
    <2>2. CASE Goto(d, "walk", "walk")
      BY <1>2, <2>2 DEF register_next_appl
    <2> QED
      BY <1>2, <2>1, <2>2 DEF register_next_appl
  <1>3. ASSUME NEW d \in Devs, register_next_appl_get(d) PROVE ListWalks'
    BY <1>3 DEF register_next_appl_get, capi_device_get
  <1>4. ASSUME NEW d \in Devs, bind_capi_device_open(d) PROVE ListWalks'
    BY <1>4 DEF bind_capi_device_open, UnlockDev
  <1>5. ASSUME NEW d \in Devs, bind_capi_device_done(d) PROVE ListWalks'
    BY <1>5 DEF bind_capi_device_done, UnlockList
  <1>6. ASSUME NEW d \in Devs, capi_device_register_sysfs(d) PROVE ListWalks'
    <2>1. CASE Goto(d, "sysfs", "registered") /\ UNCHANGED list_queue
      BY <1>6, <2>1 DEF capi_device_register_sysfs, WaitForList
    <2>2. CASE Goto(d, "sysfs", "fail_unlist") /\ WaitForList(d)
      BY <1>6, <2>2 DEF capi_device_register_sysfs, WaitForList
    <2> QED
      BY <1>6, <2>1, <2>2 DEF capi_device_register_sysfs
  <1>7. ASSUME NEW d \in Devs, unregister_capi_device(d) PROVE ListWalks'
    <2>1. CASE Goto(d, "unlist", "quiesce")
      BY <1>7, <2>1 DEF unregister_capi_device, CanWriteList, ListTurn, PassList
    <2>2. CASE Goto(d, "fail_unlist", "fail_quiesce")
      BY <1>7, <2>2 DEF unregister_capi_device, CanWriteList, ListTurn, PassList
    <2> QED
      BY <1>7, <2>1, <2>2 DEF unregister_capi_device
  <1>8. ASSUME NEW d \in Devs, unregister_capi_device_quiesce(d) PROVE ListWalks'
    <2>1. CASE Goto(d, "quiesce", "count")
      BY <1>8, <2>1 DEF unregister_capi_device_quiesce, LockDev
    <2>2. CASE Goto(d, "fail_quiesce", "fail_count")
      BY <1>8, <2>2 DEF unregister_capi_device_quiesce, LockDev
    <2> QED
      BY <1>8, <2>1, <2>2 DEF unregister_capi_device_quiesce
  <1>9. ASSUME NEW d \in Devs, unregister_capi_device_count(d) PROVE ListWalks'
    <2>1. CASE Goto(d, "count", "unregistered")
      BY <1>9, <2>1 DEF unregister_capi_device_count
    <2>2. CASE Goto(d, "fail_count", "failed")
      BY <1>9, <2>2 DEF unregister_capi_device_count
    <2> QED
      BY <1>9, <2>1, <2>2 DEF unregister_capi_device_count
  <1>10. ASSUME NEW d \in Devs, capi_device_alloc(d) PROVE ListWalks'
    BY <1>10 DEF capi_device_alloc
  <1>11. ASSUME NEW d \in Devs, capi_device_register(d) PROVE ListWalks'
    BY <1>11 DEF capi_device_register, WaitForList
  <1>12. ASSUME NEW d \in Devs, capi_device_unregister(d) PROVE ListWalks'
    BY <1>12 DEF capi_device_unregister, WaitForList
  <1>13. ASSUME NEW d \in Devs, driver_put(d) PROVE ListWalks'
    <2>1. CASE Goto(d, "allocated", "none")
      BY <1>13, <2>1 DEF driver_put, capi_device_put
    <2>2. CASE Goto(d, "failed", "none")
      BY <1>13, <2>2 DEF driver_put, capi_device_put
    <2>3. CASE Goto(d, "unregistered", "none")
      BY <1>13, <2>3 DEF driver_put, capi_device_put
    <2> QED
      BY <1>13, <2>1, <2>2, <2>3 DEF driver_put
  <1>14. ASSUME NEW a \in Appls, bind_capi_appl(a) PROVE ListWalks'
    <2>1. CASE Goto(a, "bind", "walk") /\ LockList(a)
          /\ capi_appls_list' = capi_appls_list \cup {a}
      BY <1>14, <2>1 DEF bind_capi_appl, CanReadList, ListTurn, LockList, PassList
    <2>2. CASE Goto(a, "bind", "unregistered") /\ PassList /\ UNCHANGED capi_appls_list
      BY <1>14, <2>2 DEF bind_capi_appl, CanReadList, ListTurn, LockList, PassList
    <2> QED
      BY <1>14, <2>1, <2>2 DEF bind_capi_appl
  <1>15. ASSUME NEW a \in Appls, register_next_device(a) PROVE ListWalks'
    BY <1>15 DEF register_next_device
  <1>16. ASSUME NEW a \in Appls, register_next_device_return(a) PROVE ListWalks'
    <2>1. CASE Goto(a, "in_register", "get")
          /\ known' = [known EXCEPT ![at[a]] = @ \cup {a}]
          /\ devs' = [devs EXCEPT ![a] = @ \cup {id[at[a]]}]
      BY <1>16, <2>1 DEF register_next_device_return
    <2>2. CASE Goto(a, "in_register", "walk") /\ UNCHANGED <<known, devs>>
      BY <1>16, <2>2 DEF register_next_device_return
    <2> QED
      BY <1>16, <2>1, <2>2 DEF register_next_device_return
  <1>17. ASSUME NEW a \in Appls, register_next_device_get(a) PROVE ListWalks'
    BY <1>17 DEF register_next_device_get, capi_device_get
  <1>18. ASSUME NEW a \in Appls, bind_capi_appl_done(a) PROVE ListWalks'
    BY <1>18 DEF bind_capi_appl_done, UnlockList
  <1>19. ASSUME NEW a \in Appls, capi_put_message_trylock(a) PROVE ListWalks'
    <2>1. CASE Goto(a, "trylock", "in_put") /\ LockDev(a, at[a]) /\ UNCHANGED at
      BY <1>19, <2>1 DEF capi_put_message_trylock, LockDev
    <2>2. CASE Goto(a, "trylock", "idle") /\ UNCHANGED dev_sem
          /\ at' = [at EXCEPT ![a] = NoDev]
      BY <1>19, <2>2 DEF capi_put_message_trylock, LockDev
    <2> QED
      BY <1>19, <2>1, <2>2 DEF capi_put_message_trylock
  <1>20. ASSUME NEW a \in Appls, capi_put_message_return(a) PROVE ListWalks'
    BY <1>20 DEF capi_put_message_return, UnlockDev
  <1>21. ASSUME NEW a \in Appls, capi_get_profile(a) PROVE ListWalks'
    <2>1. CASE Goto(a, "in_query", "idle")
      BY <1>21, <2>1 DEF capi_get_profile, UnlockDev
    <2>2. CASE Goto(a, "in_query", "unregistered")
      BY <1>21, <2>2 DEF capi_get_profile, UnlockDev
    <2> QED
      BY <1>21, <2>1, <2>2 DEF capi_get_profile
  <1>22. ASSUME NEW a \in Appls, capi_release_lock(a) PROVE ListWalks'
    BY <1>22 DEF capi_release_lock, CanReadList, ListTurn, LockList
  <1>23. ASSUME NEW a \in Appls, capi_release_next(a) PROVE ListWalks'
    <2>1. PICK i \in Slots :
             /\ cursor' = [cursor EXCEPT ![a] = i]
             /\ at' = [at EXCEPT ![a] = capi_devs_table[i]]
             /\ \/ Goto(a, "loop", "in_release")
                \/ Goto(a, "loop", "put")
             /\ UNCHANGED <<registry, sems, appl, driver, walked>>
      BY <1>23, ReleaseNext
    <2>2. CASE Goto(a, "loop", "in_release")
      BY <2>1, <2>2
    <2>3. CASE Goto(a, "loop", "put")
      BY <2>1, <2>3
    <2> QED
      BY <2>1, <2>2, <2>3
  <1>24. ASSUME NEW a \in Appls, driver_release(a) PROVE ListWalks'
    BY <1>24 DEF driver_release
  <1>25. ASSUME NEW a \in Appls, driver_release_return(a) PROVE ListWalks'
    BY <1>25 DEF driver_release_return
  <1>26. ASSUME NEW a \in Appls, capi_release_put(a) PROVE ListWalks'
    BY <1>26 DEF capi_release_put, capi_device_put
  <1>27. ASSUME NEW a \in Appls, capi_release_done(a) PROVE ListWalks'
    BY <1>27 DEF capi_release_done, UnlockList
  <1>28. ASSUME NEW a \in Appls, capi_register(a) PROVE ListWalks'
    BY <1>28 DEF capi_register, WaitForList
  <1>29. ASSUME NEW a \in Appls, capi_put_message(a) PROVE ListWalks'
    BY <1>29 DEF capi_put_message
  <1>30. ASSUME NEW a \in Appls, capi_get_message(a) PROVE ListWalks'
    BY <1>30 DEF capi_get_message
  <1>31. ASSUME NEW a \in Appls, try_get_capi_device_by_id(a) PROVE ListWalks'
    <2>1. CASE Goto(a, "unregistered", "in_query")
      BY <1>31, <2>1 DEF try_get_capi_device_by_id, LockDev
    <2>2. CASE Goto(a, "idle", "in_query")
      BY <1>31, <2>2 DEF try_get_capi_device_by_id, LockDev
    <2> QED
      BY <1>31, <2>1, <2>2 DEF try_get_capi_device_by_id
  <1>32. ASSUME NEW a \in Appls, capi_release(a) PROVE ListWalks'
    BY <1>32 DEF capi_release, WaitForList
  <1>33. ASSUME NEW d \in Devs, NEW a \in Appls, enter_appl(d, a) PROVE ListWalks'
    BY <1>33 DEF enter_appl
  <1>34. ASSUME NEW d \in Devs, NEW a \in Appls, capi_appl_enqueue_message(d, a) PROVE ListWalks'
    BY <1>34 DEF capi_appl_enqueue_message, leave_appl
  <1>35. ASSUME NEW d \in Devs, NEW a \in Appls, capi_appl_signal(d, a) PROVE ListWalks'
    BY <1>35 DEF capi_appl_signal, leave_appl
  <1>36. ASSUME NEW d \in Devs, NEW a \in Appls, capi_appl_signal_error(d, a) PROVE ListWalks'
    BY <1>36 DEF capi_appl_signal_error, leave_appl
  <1>37. CASE UNCHANGED vars
    BY <1>37 DEF vars
  <1> QED
    BY <1>1, <1>2, <1>3, <1>4, <1>5, <1>6, <1>7, <1>8, <1>9, <1>10, <1>11, <1>12, <1>13, <1>14, <1>15, <1>16, <1>17, <1>18, <1>19, <1>20, <1>21, <1>22, <1>23, <1>24, <1>25, <1>26, <1>27, <1>28, <1>29, <1>30, <1>31, <1>32, <1>33, <1>34, <1>35, <1>36, <1>37
    DEF Next, DriverGoesOn, DriverBegins, ApplGoesOn, ApplBegins, capi_appl_call

LEMMA ListsKeptNext == TypeOK /\ ListLocking /\ ListWalks /\ [Next]_vars => ListsKept
  <1> SUFFICES ASSUME TypeOK, ListLocking, ListWalks, [Next]_vars PROVE ListsKept
    OBVIOUS
  <1> USE ThreadsAssumption
      DEF TypeOK, ListLocking, ListWalks, ListsKept, Threads, DevPC, ApplPC, Goto,
          registry, sems, lists, appl, driver, locals
  <1>1. ASSUME NEW d \in Devs, bind_capi_device(d) PROVE ListsKept
    <2>1. CASE add_capi_device # 0 /\ Goto(d, "bind", "walk") /\ LockList(d)
          /\ capi_devs_table' = [capi_devs_table EXCEPT ![add_capi_device] = d]
      BY <1>1, <2>1 DEF bind_capi_device, CanWriteList, ListTurn, LockList, PassList
    <2>2. CASE Goto(d, "bind", "failed") /\ PassList /\ UNCHANGED capi_devs_table
      BY <1>1, <2>2 DEF bind_capi_device, CanWriteList, ListTurn, LockList, PassList
    <2> QED
      BY <1>1, <2>1, <2>2 DEF bind_capi_device
  <1>2. ASSUME NEW d \in Devs, register_next_appl(d) PROVE ListsKept
    <2>1. CASE Goto(d, "walk", "get")
      BY <1>2, <2>1 DEF register_next_appl
    <2>2. CASE Goto(d, "walk", "walk")
      BY <1>2, <2>2 DEF register_next_appl
    <2> QED
      BY <1>2, <2>1, <2>2 DEF register_next_appl
  <1>3. ASSUME NEW d \in Devs, register_next_appl_get(d) PROVE ListsKept
    BY <1>3 DEF register_next_appl_get, capi_device_get
  <1>4. ASSUME NEW d \in Devs, bind_capi_device_open(d) PROVE ListsKept
    BY <1>4 DEF bind_capi_device_open, UnlockDev
  <1>5. ASSUME NEW d \in Devs, bind_capi_device_done(d) PROVE ListsKept
    BY <1>5 DEF bind_capi_device_done, UnlockList
  <1>6. ASSUME NEW d \in Devs, capi_device_register_sysfs(d) PROVE ListsKept
    <2>1. CASE Goto(d, "sysfs", "registered") /\ UNCHANGED list_queue
      BY <1>6, <2>1 DEF capi_device_register_sysfs, WaitForList
    <2>2. CASE Goto(d, "sysfs", "fail_unlist") /\ WaitForList(d)
      BY <1>6, <2>2 DEF capi_device_register_sysfs, WaitForList
    <2> QED
      BY <1>6, <2>1, <2>2 DEF capi_device_register_sysfs
  <1>7. ASSUME NEW d \in Devs, unregister_capi_device(d) PROVE ListsKept
    <2>1. CASE Goto(d, "unlist", "quiesce")
      BY <1>7, <2>1 DEF unregister_capi_device, CanWriteList, ListTurn, PassList
    <2>2. CASE Goto(d, "fail_unlist", "fail_quiesce")
      BY <1>7, <2>2 DEF unregister_capi_device, CanWriteList, ListTurn, PassList
    <2> QED
      BY <1>7, <2>1, <2>2 DEF unregister_capi_device
  <1>8. ASSUME NEW d \in Devs, unregister_capi_device_quiesce(d) PROVE ListsKept
    <2>1. CASE Goto(d, "quiesce", "count")
      BY <1>8, <2>1 DEF unregister_capi_device_quiesce, LockDev
    <2>2. CASE Goto(d, "fail_quiesce", "fail_count")
      BY <1>8, <2>2 DEF unregister_capi_device_quiesce, LockDev
    <2> QED
      BY <1>8, <2>1, <2>2 DEF unregister_capi_device_quiesce
  <1>9. ASSUME NEW d \in Devs, unregister_capi_device_count(d) PROVE ListsKept
    <2>1. CASE Goto(d, "count", "unregistered")
      BY <1>9, <2>1 DEF unregister_capi_device_count
    <2>2. CASE Goto(d, "fail_count", "failed")
      BY <1>9, <2>2 DEF unregister_capi_device_count
    <2> QED
      BY <1>9, <2>1, <2>2 DEF unregister_capi_device_count
  <1>10. ASSUME NEW d \in Devs, capi_device_alloc(d) PROVE ListsKept
    BY <1>10 DEF capi_device_alloc
  <1>11. ASSUME NEW d \in Devs, capi_device_register(d) PROVE ListsKept
    BY <1>11 DEF capi_device_register, WaitForList
  <1>12. ASSUME NEW d \in Devs, capi_device_unregister(d) PROVE ListsKept
    BY <1>12 DEF capi_device_unregister, WaitForList
  <1>13. ASSUME NEW d \in Devs, driver_put(d) PROVE ListsKept
    <2>1. CASE Goto(d, "allocated", "none")
      BY <1>13, <2>1 DEF driver_put, capi_device_put
    <2>2. CASE Goto(d, "failed", "none")
      BY <1>13, <2>2 DEF driver_put, capi_device_put
    <2>3. CASE Goto(d, "unregistered", "none")
      BY <1>13, <2>3 DEF driver_put, capi_device_put
    <2> QED
      BY <1>13, <2>1, <2>2, <2>3 DEF driver_put
  <1>14. ASSUME NEW a \in Appls, bind_capi_appl(a) PROVE ListsKept
    <2>1. CASE Goto(a, "bind", "walk") /\ LockList(a)
          /\ capi_appls_list' = capi_appls_list \cup {a}
      BY <1>14, <2>1 DEF bind_capi_appl, CanReadList, ListTurn, LockList, PassList
    <2>2. CASE Goto(a, "bind", "unregistered") /\ PassList /\ UNCHANGED capi_appls_list
      BY <1>14, <2>2 DEF bind_capi_appl, CanReadList, ListTurn, LockList, PassList
    <2> QED
      BY <1>14, <2>1, <2>2 DEF bind_capi_appl
  <1>15. ASSUME NEW a \in Appls, register_next_device(a) PROVE ListsKept
    BY <1>15 DEF register_next_device
  <1>16. ASSUME NEW a \in Appls, register_next_device_return(a) PROVE ListsKept
    <2>1. CASE Goto(a, "in_register", "get")
          /\ known' = [known EXCEPT ![at[a]] = @ \cup {a}]
          /\ devs' = [devs EXCEPT ![a] = @ \cup {id[at[a]]}]
      BY <1>16, <2>1 DEF register_next_device_return
    <2>2. CASE Goto(a, "in_register", "walk") /\ UNCHANGED <<known, devs>>
      BY <1>16, <2>2 DEF register_next_device_return
    <2> QED
      BY <1>16, <2>1, <2>2 DEF register_next_device_return
  <1>17. ASSUME NEW a \in Appls, register_next_device_get(a) PROVE ListsKept
    BY <1>17 DEF register_next_device_get, capi_device_get
  <1>18. ASSUME NEW a \in Appls, bind_capi_appl_done(a) PROVE ListsKept
    BY <1>18 DEF bind_capi_appl_done, UnlockList
  <1>19. ASSUME NEW a \in Appls, capi_put_message_trylock(a) PROVE ListsKept
    <2>1. CASE Goto(a, "trylock", "in_put") /\ LockDev(a, at[a]) /\ UNCHANGED at
      BY <1>19, <2>1 DEF capi_put_message_trylock, LockDev
    <2>2. CASE Goto(a, "trylock", "idle") /\ UNCHANGED dev_sem
          /\ at' = [at EXCEPT ![a] = NoDev]
      BY <1>19, <2>2 DEF capi_put_message_trylock, LockDev
    <2> QED
      BY <1>19, <2>1, <2>2 DEF capi_put_message_trylock
  <1>20. ASSUME NEW a \in Appls, capi_put_message_return(a) PROVE ListsKept
    BY <1>20 DEF capi_put_message_return, UnlockDev
  <1>21. ASSUME NEW a \in Appls, capi_get_profile(a) PROVE ListsKept
    <2>1. CASE Goto(a, "in_query", "idle")
      BY <1>21, <2>1 DEF capi_get_profile, UnlockDev
    <2>2. CASE Goto(a, "in_query", "unregistered")
      BY <1>21, <2>2 DEF capi_get_profile, UnlockDev
    <2> QED
      BY <1>21, <2>1, <2>2 DEF capi_get_profile
  <1>22. ASSUME NEW a \in Appls, capi_release_lock(a) PROVE ListsKept
    BY <1>22 DEF capi_release_lock, CanReadList, ListTurn, LockList
  <1>23. ASSUME NEW a \in Appls, capi_release_next(a) PROVE ListsKept
    <2>1. CASE Goto(a, "loop", "in_release")
      BY <1>23, <2>1 DEF capi_release_next, capi_device_listed
    <2>2. CASE Goto(a, "loop", "put")
      BY <1>23, <2>2 DEF capi_release_next, capi_device_listed
    <2> QED
      BY <1>23, <2>1, <2>2 DEF capi_release_next, capi_device_listed
  <1>24. ASSUME NEW a \in Appls, driver_release(a) PROVE ListsKept
    BY <1>24 DEF driver_release
  <1>25. ASSUME NEW a \in Appls, driver_release_return(a) PROVE ListsKept
    BY <1>25 DEF driver_release_return
  <1>26. ASSUME NEW a \in Appls, capi_release_put(a) PROVE ListsKept
    BY <1>26 DEF capi_release_put, capi_device_put
  <1>27. ASSUME NEW a \in Appls, capi_release_done(a) PROVE ListsKept
    BY <1>27 DEF capi_release_done, UnlockList
  <1>28. ASSUME NEW a \in Appls, capi_register(a) PROVE ListsKept
    BY <1>28 DEF capi_register, WaitForList
  <1>29. ASSUME NEW a \in Appls, capi_put_message(a) PROVE ListsKept
    BY <1>29 DEF capi_put_message
  <1>30. ASSUME NEW a \in Appls, capi_get_message(a) PROVE ListsKept
    BY <1>30 DEF capi_get_message
  <1>31. ASSUME NEW a \in Appls, try_get_capi_device_by_id(a) PROVE ListsKept
    <2>1. CASE Goto(a, "unregistered", "in_query")
      BY <1>31, <2>1 DEF try_get_capi_device_by_id, LockDev
    <2>2. CASE Goto(a, "idle", "in_query")
      BY <1>31, <2>2 DEF try_get_capi_device_by_id, LockDev
    <2> QED
      BY <1>31, <2>1, <2>2 DEF try_get_capi_device_by_id
  <1>32. ASSUME NEW a \in Appls, capi_release(a) PROVE ListsKept
    BY <1>32 DEF capi_release, WaitForList
  <1>33. ASSUME NEW d \in Devs, NEW a \in Appls, enter_appl(d, a) PROVE ListsKept
    BY <1>33 DEF enter_appl
  <1>34. ASSUME NEW d \in Devs, NEW a \in Appls, capi_appl_enqueue_message(d, a) PROVE ListsKept
    BY <1>34 DEF capi_appl_enqueue_message, leave_appl
  <1>35. ASSUME NEW d \in Devs, NEW a \in Appls, capi_appl_signal(d, a) PROVE ListsKept
    BY <1>35 DEF capi_appl_signal, leave_appl
  <1>36. ASSUME NEW d \in Devs, NEW a \in Appls, capi_appl_signal_error(d, a) PROVE ListsKept
    BY <1>36 DEF capi_appl_signal_error, leave_appl
  <1>37. CASE UNCHANGED vars
    BY <1>37 DEF vars
  <1> QED
    BY <1>1, <1>2, <1>3, <1>4, <1>5, <1>6, <1>7, <1>8, <1>9, <1>10, <1>11, <1>12, <1>13, <1>14, <1>15, <1>16, <1>17, <1>18, <1>19, <1>20, <1>21, <1>22, <1>23, <1>24, <1>25, <1>26, <1>27, <1>28, <1>29, <1>30, <1>31, <1>32, <1>33, <1>34, <1>35, <1>36, <1>37
    DEF Next, DriverGoesOn, DriverBegins, ApplGoesOn, ApplBegins, capi_appl_call

-------------------------------------------------------------------------------
(* Theorems *)

(* The inductive invariant of this module. *)
CoreInv == TypeOK /\ ListLocking /\ ListWalks

LEMMA CoreInit == Init => CoreInv
  <1>1. Init => ListLocking /\ ListWalks
    BY ThreadsAssumption
    DEF Init, ListLocking, ListWalks, Threads, Operating
  <1> QED
    BY <1>1, TypeInit DEF CoreInv

LEMMA CoreNext == CoreInv /\ [Next]_vars => CoreInv'
  BY TypeNext, ListLockingNext, ListWalksNext DEF CoreInv

(* Every variable keeps its type, for any number of devices, applications  *)
(* and slots.                                                              *)
THEOREM TypeCorrect == Spec => []TypeOK
  <1>1. Init => CoreInv
    BY CoreInit
  <1>2. CoreInv /\ [Next]_vars => CoreInv'
    BY CoreNext
  <1>3. CoreInv => TypeOK
    BY DEF CoreInv
  <1> QED
    BY <1>1, <1>2, <1>3, PTL DEF Spec

(* capi_devs_list_sem is a reader/writer lock over the code sections that  *)
(* use the lists, and what the walks read under it stays true.             *)
THEOREM ListsLocked == Spec => [](ListLocking /\ ListWalks)
  <1>1. Init => CoreInv
    BY CoreInit
  <1>2. CoreInv /\ [Next]_vars => CoreInv'
    BY CoreNext
  <1>3. CoreInv => ListLocking /\ ListWalks
    BY DEF CoreInv
  <1> QED
    BY <1>1, <1>2, <1>3, PTL DEF Spec

(* No list changes under a walk: bind_capi_device may walk the application *)
(* list without capi_appls_list_sem, and capi_release may test for a       *)
(* listed device, because every writer of these lists is excluded by       *)
(* capi_devs_list_sem.                                                     *)
THEOREM ListsStable == Spec => ListsStableUnderWalks
  <1>1. Init => CoreInv
    BY CoreInit
  <1>2. CoreInv /\ [Next]_vars => CoreInv'
    BY CoreNext
  <1>3. CoreInv /\ [Next]_vars => [ListsKept]_vars
    BY ListsKeptNext DEF CoreInv
  <1> QED
    BY <1>1, <1>2, <1>3, PTL DEF Spec, ListsStableUnderWalks

-------------------------------------------------------------------------------
(* That a device is quiet once its driver has unregistered it, for any     *)
(* number of devices, applications, slots and messages.                    *)

(* dev->sem: an application in put_message or in a query holds that of its *)
(* device; ...                                                             *)
InOpHolds ==
  \A a \in Appls :
    pc[a] \in {"in_put", "in_query"} /\ at[a] \in Devs => a \in dev_sem[at[a]]

(* ... the driver holds it alone from capi_device_register to the end of   *)
(* the walk, and from unregister_capi_device on; ...                       *)
Closed == {"bind", "walk", "get", "failed", "count", "fail_count", "unregistered"}
DriverHolds == \A d \in Devs : pc[d] \in Closed => dev_sem[d] = {d}

(* ... and a device that was put and is not registered is out of reach, or *)
(* still has the semaphore that its driver took.                           *)
OutOfReach(d) ==
  /\ dev_sem[d] = {}
  /\ \A i \in Slots : capi_devs_table[i] # d
  /\ \A a \in Appls : at[a] # d
PutIsQuiet ==
  \A d \in Devs :
    pc[d] \in {"none", "allocated"} => dev_sem[d] = {d} \/ OutOfReach(d)

(* The driver's capi_release is only called for a listed device.           *)
ReleaseListed == \A a \in Appls : pc[a] = "in_release" => at[a] \in capi_devs_list

DevLocking == InOpHolds /\ DriverHolds /\ PutIsQuiet /\ ReleaseListed

-------------------------------------------------------------------------------
(* What the steps do to dev->sem, the table and the local variables dev.   *)
Away == {"none", "allocated"}
InOp == {"in_put", "in_query"}
TableShrinks == \A i \in Slots : capi_devs_table'[i] \in {capi_devs_table[i], NoDev}

Begins(d, q) ==
  /\ pc[d] = "allocated" /\ q = "bind"
  /\ dev_sem' = [dev_sem EXCEPT ![d] = {d}] /\ TableShrinks
Binds(d, q) ==
  /\ pc[d] = "bind" /\ q \in Closed /\ dev_sem' = dev_sem
  /\ \A i \in Slots : capi_devs_table'[i] \in {capi_devs_table[i], d}
Opens(d, q) ==
  /\ pc[d] = "walk" /\ q = "open"
  /\ dev_sem' = [dev_sem EXCEPT ![d] = @ \ {d}] /\ TableShrinks
Closes(d, q) ==
  /\ pc[d] \in {"quiesce", "fail_quiesce"} /\ q \in {"count", "fail_count"}
  /\ dev_sem[d] = {} /\ dev_sem' = [dev_sem EXCEPT ![d] = @ \cup {d}] /\ TableShrinks
Passes(d, q) ==
  /\ q \in Closed => pc[d] \in Closed
  /\ q \in Away => pc[d] \in Closed \cup Away
  /\ dev_sem' = dev_sem /\ TableShrinks

DriverStep(d) ==
  \E q \in DevPC :
    /\ pc' = [pc EXCEPT ![d] = q] /\ at' = at
    /\ Begins(d, q) \/ Binds(d, q) \/ Opens(d, q) \/ Closes(d, q) \/ Passes(d, q)

Enters(a, q) ==
  /\ q \in InOp
  /\ at'[a] \in Devs => at'[a] \notin dev_sem[at'[a]]
  /\ dev_sem' = [dev_sem EXCEPT ![at'[a]] = @ \cup {a}]
LeavesOp(a, q) ==
  /\ q \notin InOp /\ q # "in_release"
  /\ dev_sem' = [dev_sem EXCEPT ![at[a]] = @ \ {a}]
Walks(a, q) ==
  /\ q \notin InOp /\ dev_sem' = dev_sem
  /\ q = "in_release" => at'[a] \in capi_devs_list

ApplStep(a) ==
  \E q \in ApplPC :
    /\ pc' = [pc EXCEPT ![a] = q] /\ TableShrinks /\ capi_devs_list' = capi_devs_list
    /\ \A b \in Appls : b # a => at'[b] = at[b]
    /\ \/ at'[a] \in {at[a], NoDev} \cup capi_devs_list
       \/ \E i \in Slots : at'[a] = capi_devs_table[i]
    /\ Enters(a, q) \/ LeavesOp(a, q) \/ Walks(a, q)

LEMMA DriverSteps ==
  ASSUME TypeOK, NEW d \in Devs, DriverGoesOn(d) \/ DriverBegins(d)
  PROVE  DriverStep(d)
  <1> USE ThreadsAssumption
      DEF TypeOK, DriverStep, TableShrinks, Passes, Closed, Away, Threads, DevPC, Goto,
          registry, sems, lists, appl, driver, locals
  <1>1. ASSUME bind_capi_device(d) PROVE DriverStep(d)
    <2>1. add_capi_device \in 0 .. MaxDevs
      BY AddDevice
    <2>2. CASE Goto(d, "bind", "walk")
               /\ capi_devs_table' = [capi_devs_table EXCEPT ![add_capi_device] = d]
      <3>1. Binds(d, "walk")
        BY <1>1, <2>1, <2>2 DEF bind_capi_device, Binds
      <3> QED
        BY <1>1, <2>2, <3>1 DEF bind_capi_device
    <2>3. CASE Goto(d, "bind", "failed") /\ UNCHANGED capi_devs_table
      <3>1. Binds(d, "failed")
        BY <1>1, <2>3 DEF bind_capi_device, Binds
      <3> QED
        BY <1>1, <2>3, <3>1 DEF bind_capi_device
    <2> QED
      BY <1>1, <2>2, <2>3 DEF bind_capi_device
  <1>2. ASSUME register_next_appl(d) PROVE DriverStep(d)
    BY <1>2 DEF register_next_appl
  <1>3. ASSUME register_next_appl_get(d) PROVE DriverStep(d)
    BY <1>3 DEF register_next_appl_get
  <1>4. ASSUME bind_capi_device_open(d) PROVE DriverStep(d)
    <2>1. Opens(d, "open")
      BY <1>4 DEF bind_capi_device_open, UnlockDev, Opens
    <2> QED
      BY <1>4, <2>1 DEF bind_capi_device_open
  <1>5. ASSUME bind_capi_device_done(d) PROVE DriverStep(d)
    BY <1>5 DEF bind_capi_device_done
  <1>6. ASSUME capi_device_register_sysfs(d) PROVE DriverStep(d)
    BY <1>6 DEF capi_device_register_sysfs
  <1>7. ASSUME unregister_capi_device(d) PROVE DriverStep(d)
    BY <1>7 DEF unregister_capi_device
  <1>8. ASSUME unregister_capi_device_quiesce(d) PROVE DriverStep(d)
    <2>1. CASE Goto(d, "quiesce", "count")
      <3>1. Closes(d, "count")
        BY <1>8, <2>1 DEF unregister_capi_device_quiesce, LockDev, CanWriteDev, Closes
      <3> QED
        BY <1>8, <2>1, <3>1 DEF unregister_capi_device_quiesce
    <2>2. CASE Goto(d, "fail_quiesce", "fail_count")
      <3>1. Closes(d, "fail_count")
        BY <1>8, <2>2 DEF unregister_capi_device_quiesce, LockDev, CanWriteDev, Closes
      <3> QED
        BY <1>8, <2>2, <3>1 DEF unregister_capi_device_quiesce
    <2> QED
      BY <1>8, <2>1, <2>2 DEF unregister_capi_device_quiesce
  <1>9. ASSUME unregister_capi_device_count(d) PROVE DriverStep(d)
    BY <1>9 DEF unregister_capi_device_count
  <1>10. ASSUME capi_device_alloc(d) PROVE DriverStep(d)
    BY <1>10 DEF capi_device_alloc
  <1>11. ASSUME capi_device_register(d) PROVE DriverStep(d)
    <2>1. Begins(d, "bind")
      BY <1>11 DEF capi_device_register, Begins
    <2> QED
      BY <1>11, <2>1 DEF capi_device_register
  <1>12. ASSUME capi_device_unregister(d) PROVE DriverStep(d)
    BY <1>12 DEF capi_device_unregister
  <1>13. ASSUME driver_put(d) PROVE DriverStep(d)
    BY <1>13 DEF driver_put, capi_device_put
  <1> QED
    BY <1>1, <1>2, <1>3, <1>4, <1>5, <1>6, <1>7, <1>8, <1>9, <1>10, <1>11, <1>12, <1>13
    DEF DriverGoesOn, DriverBegins

LEMMA ApplSteps ==
  ASSUME TypeOK, TypeOK', ReleaseListed, NEW a \in Appls, ApplGoesOn(a) \/ ApplBegins(a)
  PROVE  ApplStep(a)
  <1>0. ASSUME capi_release_next(a)
        PROVE  \E i \in Slots :
                 /\ at' = [at EXCEPT ![a] = capi_devs_table[i]]
                 /\ \/ capi_devs_table[i] \in capi_devs_list /\ Goto(a, "loop", "in_release")
                    \/ capi_devs_table[i] \notin capi_devs_list /\ Goto(a, "loop", "put")
                 /\ UNCHANGED <<registry, sems, appl, driver, walked>>
    BY <1>0, ReleaseNext
  <1> USE ThreadsAssumption
      DEF TypeOK, ApplStep, TableShrinks, Walks, InOp, Threads, ApplPC, Goto,
          registry, sems, lists, appl, driver, locals
  <1>1. ASSUME bind_capi_appl(a) PROVE ApplStep(a)
    BY <1>1 DEF bind_capi_appl
  <1>2. ASSUME register_next_device(a) PROVE ApplStep(a)
    BY <1>2 DEF register_next_device
  <1>3. ASSUME register_next_device_return(a) PROVE ApplStep(a)
    BY <1>3 DEF register_next_device_return
  <1>4. ASSUME register_next_device_get(a) PROVE ApplStep(a)
    BY <1>4 DEF register_next_device_get
  <1>5. ASSUME bind_capi_appl_done(a) PROVE ApplStep(a)
    BY <1>5 DEF bind_capi_appl_done
  <1>6. ASSUME capi_put_message_trylock(a) PROVE ApplStep(a)
    <2>1. CASE Goto(a, "trylock", "in_put") /\ CanReadDev(at[a]) /\ LockDev(a, at[a])
               /\ UNCHANGED at
      <3>1. Enters(a, "in_put")
        BY <2>1 DEF CanReadDev, LockDev, Enters
      <3> QED
        BY <1>6, <2>1, <3>1 DEF capi_put_message_trylock
    <2>2. CASE Goto(a, "trylock", "idle") /\ at' = [at EXCEPT ![a] = NoDev]
               /\ UNCHANGED dev_sem
      BY <1>6, <2>2 DEF capi_put_message_trylock
    <2> QED
      BY <1>6, <2>1, <2>2 DEF capi_put_message_trylock
  <1>7. ASSUME capi_put_message_return(a) PROVE ApplStep(a)
    <2>1. LeavesOp(a, "idle")
      BY <1>7 DEF capi_put_message_return, UnlockDev, LeavesOp
    <2> QED
      BY <1>7, <2>1 DEF capi_put_message_return
  <1>8. ASSUME capi_get_profile(a) PROVE ApplStep(a)
    <2>1. LeavesOp(a, "idle") /\ LeavesOp(a, "unregistered")
      BY <1>8 DEF capi_get_profile, UnlockDev, LeavesOp
    <2> QED
      BY <1>8, <2>1 DEF capi_get_profile
  <1>9. ASSUME capi_release_lock(a) PROVE ApplStep(a)
    BY <1>9 DEF capi_release_lock
  <1>10. ASSUME capi_release_next(a) PROVE ApplStep(a)
    <2>1. PICK i \in Slots :
             /\ at' = [at EXCEPT ![a] = capi_devs_table[i]]
             /\ \/ capi_devs_table[i] \in capi_devs_list /\ Goto(a, "loop", "in_release")
                \/ capi_devs_table[i] \notin capi_devs_list /\ Goto(a, "loop", "put")
             /\ UNCHANGED <<registry, sems, appl, driver, walked>>
      BY <1>0, <1>10
    <2>2. CASE capi_devs_table[i] \in capi_devs_list /\ Goto(a, "loop", "in_release")
      BY <2>1, <2>2
    <2>3. CASE Goto(a, "loop", "put")
      BY <2>1, <2>3
    <2> QED
      BY <2>1, <2>2, <2>3
  <1>11. ASSUME driver_release(a) PROVE ApplStep(a)
    BY <1>11 DEF driver_release, ReleaseListed
  <1>12. ASSUME driver_release_return(a) PROVE ApplStep(a)
    BY <1>12 DEF driver_release_return
  <1>13. ASSUME capi_release_put(a) PROVE ApplStep(a)
    BY <1>13 DEF capi_release_put, capi_device_put
  <1>14. ASSUME capi_release_done(a) PROVE ApplStep(a)
    BY <1>14 DEF capi_release_done
  <1>15. ASSUME capi_register(a) PROVE ApplStep(a)
    BY <1>15 DEF capi_register
  <1>16. ASSUME capi_put_message(a) PROVE ApplStep(a)
    <2>1. PICK i \in Slots : at' = [at EXCEPT ![a] = capi_devs_table[i]]
      BY <1>16 DEF capi_put_message
    <2> QED
      BY <1>16, <2>1 DEF capi_put_message
  <1>17. ASSUME capi_get_message(a) PROVE ApplStep(a)
    BY <1>17 DEF capi_get_message
  <1>18. ASSUME try_get_capi_device_by_id(a) PROVE ApplStep(a)
    <2>1. PICK i \in Slots :
             /\ CanReadDev(capi_devs_table[i])
             /\ LockDev(a, capi_devs_table[i])
             /\ at' = [at EXCEPT ![a] = capi_devs_table[i]]
      BY <1>18 DEF try_get_capi_device_by_id
    <2>2. Enters(a, "in_query")
      BY <2>1 DEF CanReadDev, LockDev, Enters
    <2> QED
      BY <1>18, <2>1, <2>2 DEF try_get_capi_device_by_id
  <1>19. ASSUME capi_release(a) PROVE ApplStep(a)
    BY <1>19 DEF capi_release
  <1> QED
    BY <1>1, <1>2, <1>3, <1>4, <1>5, <1>6, <1>7, <1>8, <1>9, <1>10, <1>11, <1>12, <1>13,
       <1>14, <1>15, <1>16, <1>17, <1>18, <1>19
    DEF ApplGoesOn, ApplBegins

-------------------------------------------------------------------------------
LEMMA DriverKeeps ==
  ASSUME TypeOK, DevLocking, ListsKept, NEW d \in Devs, DriverStep(d)
  PROVE  DevLocking'
  <1>1. PICK q \in DevPC :
          /\ pc' = [pc EXCEPT ![d] = q] /\ at' = at
          /\ Begins(d, q) \/ Binds(d, q) \/ Opens(d, q) \/ Closes(d, q) \/ Passes(d, q)
    BY DEF DriverStep
  <1>2. /\ \A a \in Appls : pc'[a] = pc[a] /\ a # d
        /\ \A x \in Devs : x # d => pc'[x] = pc[x]
        /\ pc'[d] = q /\ dev_sem \in [Devs -> SUBSET Threads]
        /\ \A x \in Devs : x # NoDev
    BY <1>1, ThreadsAssumption DEF TypeOK, Threads
  <1>3. InOpHolds /\ DriverHolds /\ PutIsQuiet /\ ReleaseListed
    BY DEF DevLocking
  <1>4. \A x \in Devs : x # d => dev_sem'[x] = dev_sem[x]
    BY <1>1, <1>2 DEF Begins, Binds, Opens, Closes, Passes
  <1>5. InOpHolds'
    <2> SUFFICES ASSUME NEW a \in Appls, pc[a] \in {"in_put", "in_query"}, at[a] \in Devs
                 PROVE  a \in dev_sem'[at[a]]
      BY <1>1, <1>2 DEF InOpHolds
    <2>1. a \in dev_sem[at[a]]
      BY <1>3 DEF InOpHolds
    <2>2. CASE at[a] # d
      BY <1>4, <2>1, <2>2
    <2>3. CASE at[a] = d
      <3>1. ~Begins(d, q)
        BY <1>2, <1>3, <2>1, <2>3 DEF Begins, PutIsQuiet, OutOfReach
      <3>2. dev_sem[d] \ {d} \subseteq dev_sem'[d]
        BY <1>1, <1>2, <3>1 DEF Binds, Opens, Closes, Passes
      <3> QED
        BY <1>2, <2>1, <2>3, <3>2
    <2> QED
      BY <2>2, <2>3
  <1>6. DriverHolds'
    <2> SUFFICES ASSUME q \in Closed PROVE dev_sem'[d] = {d}
      BY <1>2, <1>3, <1>4 DEF DriverHolds, Closed
    <2> QED
      BY <1>1, <1>2, <1>3 DEF DriverHolds, Closed, Begins, Binds, Opens, Closes, Passes
  <1>7. \A x \in Devs : (x # d \/ Passes(d, q)) =>
          \A i \in Slots : capi_devs_table[i] # x => capi_devs_table'[i] # x
    BY <1>1, <1>2 DEF TableShrinks, Begins, Binds, Opens, Closes, Passes
  <1>8. PutIsQuiet'
    <2> SUFFICES ASSUME NEW x \in Devs, pc'[x] \in Away
                 PROVE  dev_sem'[x] = {x} \/ OutOfReach(x)'
      BY DEF PutIsQuiet, Away
    <2>1. CASE x # d
      BY <1>1, <1>2, <1>3, <1>4, <1>7, <2>1 DEF PutIsQuiet, OutOfReach, Away
    <2>2. CASE x = d
      <3>1. Passes(d, q)
        BY <1>1, <1>2, <2>2 DEF Away, Closed, Begins, Binds, Opens, Closes
      <3>2. pc[d] \in Closed \cup Away /\ dev_sem'[d] = dev_sem[d]
        BY <1>2, <2>2, <3>1 DEF Passes
      <3> QED
        BY <1>1, <1>3, <1>7, <2>2, <3>1, <3>2 DEF PutIsQuiet, DriverHolds, OutOfReach, Away
    <2> QED
      BY <2>1, <2>2
  <1>9. ReleaseListed'
    BY <1>1, <1>2, <1>3 DEF ReleaseListed, ListsKept
  <1> QED
    BY <1>5, <1>6, <1>8, <1>9 DEF DevLocking

LEMMA ApplKeeps ==
  ASSUME TypeOK, ListWalks, DevLocking, NEW a \in Appls, ApplStep(a)
  PROVE  DevLocking'
  <1>1. PICK q \in ApplPC :
          /\ pc' = [pc EXCEPT ![a] = q] /\ TableShrinks /\ capi_devs_list' = capi_devs_list
          /\ \A b \in Appls : b # a => at'[b] = at[b]
          /\ \/ at'[a] \in {at[a], NoDev} \cup capi_devs_list
             \/ \E i \in Slots : at'[a] = capi_devs_table[i]
          /\ Enters(a, q) \/ LeavesOp(a, q) \/ Walks(a, q)
    BY DEF ApplStep
  <1>2. /\ \A b \in Appls : b # a => pc'[b] = pc[b]
        /\ \A x \in Devs : pc'[x] = pc[x] /\ x # a /\ x # NoDev
        /\ pc'[a] = q /\ dev_sem \in [Devs -> SUBSET Threads] /\ a \in Threads
    BY <1>1, ThreadsAssumption DEF TypeOK, Threads
  <1>3. InOpHolds /\ DriverHolds /\ PutIsQuiet /\ ReleaseListed
    BY DEF DevLocking
  <1>4. \A x \in Devs : dev_sem[x] \ {a} \subseteq dev_sem'[x]
    BY <1>1, <1>2 DEF Enters, LeavesOp, Walks
  <1>5. InOpHolds'
    <2> SUFFICES ASSUME NEW b \in Appls, pc'[b] \in {"in_put", "in_query"}, at'[b] \in Devs
                 PROVE  b \in dev_sem'[at'[b]]
      BY DEF InOpHolds
    <2>1. CASE b # a
      BY <1>1, <1>2, <1>3, <1>4, <2>1 DEF InOpHolds
    <2>2. CASE b = a
      <3>1. Enters(a, q)
        BY <1>1, <1>2, <2>2 DEF LeavesOp, Walks, InOp
      <3> QED
        BY <1>2, <2>2, <3>1 DEF Enters
    <2> QED
      BY <2>1, <2>2
  <1>6. \A x \in Devs : dev_sem[x] = {x} => dev_sem'[x] = {x}
    <2> SUFFICES ASSUME NEW x \in Devs, dev_sem[x] = {x} PROVE dev_sem'[x] = {x}
      OBVIOUS
    <2>1. CASE Enters(a, q)
      <3>1. at'[a] # x
        BY <2>1 DEF Enters
      <3> QED
        BY <1>2, <2>1, <3>1 DEF Enters
    <2>2. CASE LeavesOp(a, q)
      BY <1>2, <2>2 DEF LeavesOp
    <2>3. CASE Walks(a, q)
      BY <2>3 DEF Walks
    <2> QED
      BY <1>1, <2>1, <2>2, <2>3
  <1>7. DriverHolds'
    BY <1>2, <1>3, <1>6 DEF DriverHolds
  <1>8. PutIsQuiet'
    <2> SUFFICES ASSUME NEW x \in Devs, pc[x] \in {"none", "allocated"}, OutOfReach(x)
                 PROVE  OutOfReach(x)'
      BY <1>2, <1>3, <1>6 DEF PutIsQuiet
    <2>1. x \notin capi_devs_list
      BY DEF ListWalks
    <2>2. at[a] # x /\ at'[a] # x
      BY <1>1, <1>2, <2>1 DEF OutOfReach
    <2>3. dev_sem'[x] = {}
      BY <1>1, <1>2, <2>2 DEF OutOfReach, Enters, LeavesOp, Walks
    <2>4. \A i \in Slots : capi_devs_table'[i] # x
      BY <1>1, <1>2 DEF OutOfReach, TableShrinks
    <2>5. \A b \in Appls : at'[b] # x
      BY <1>1, <2>2 DEF OutOfReach
    <2> QED
      BY <2>3, <2>4, <2>5 DEF OutOfReach
  <1>9. ReleaseListed'
    <2> SUFFICES ASSUME NEW b \in Appls, pc'[b] = "in_release" PROVE at'[b] \in capi_devs_list
      BY <1>1 DEF ReleaseListed
    <2>1. CASE b # a
      BY <1>1, <1>2, <1>3, <2>1 DEF ReleaseListed
    <2>2. CASE b = a
      BY <1>1, <1>2, <2>2 DEF Enters, LeavesOp, Walks, InOp
    <2> QED
      BY <2>1, <2>2
  <1> QED
    BY <1>5, <1>7, <1>8, <1>9 DEF DevLocking

LEMMA DevLockingNext == CoreInv /\ DevLocking /\ [Next]_vars => DevLocking'
  <1> SUFFICES ASSUME CoreInv, DevLocking, [Next]_vars PROVE DevLocking'
    OBVIOUS
  <1>1. TypeOK /\ ListWalks /\ TypeOK' /\ ListsKept
    BY CoreNext, ListsKeptNext DEF CoreInv
  <1>2. ASSUME NEW d \in Devs, DriverGoesOn(d) \/ DriverBegins(d) PROVE DevLocking'
    BY <1>1, <1>2, DriverSteps, DriverKeeps
  <1>3. ASSUME NEW a \in Appls, ApplGoesOn(a) \/ ApplBegins(a) PROVE DevLocking'
    BY <1>1, <1>3, ApplSteps, ApplKeeps DEF DevLocking
  <1>4. CASE UNCHANGED <<capi_devs_table, capi_devs_list, dev_sem, pc, at>>
    BY <1>4 DEF DevLocking, InOpHolds, DriverHolds, PutIsQuiet, OutOfReach, ReleaseListed
  <1>5. ASSUME NEW d \in Devs, NEW a \in Appls, enter_appl(d, a) \/ capi_appl_call(d, a)
        PROVE  DevLocking'
    BY <1>4, <1>5 DEF enter_appl, capi_appl_call, capi_appl_enqueue_message,
                      capi_appl_signal, capi_appl_signal_error, leave_appl,
                      registry, sems, locals
  <1>6. CASE UNCHANGED vars
    BY <1>4, <1>6 DEF vars, registry, sems, locals
  <1> QED
    BY <1>2, <1>3, <1>5, <1>6 DEF Next

LEMMA DevLockingInit == Init => DevLocking
  BY ThreadsAssumption
  DEF Init, DevLocking, InOpHolds, DriverHolds, PutIsQuiet, OutOfReach, ReleaseListed,
      Closed, Threads, Slots

(* Once capi_device_unregister has returned, no thread is in, or enters, a *)
(* call of the capicore to an operation of the device.                     *)
THEOREM UnregisteredIsQuiet == Spec => []UnregisterQuiesces
  <1>1. Init => CoreInv /\ DevLocking
    BY CoreInit, DevLockingInit
  <1>2. CoreInv /\ DevLocking /\ [Next]_vars => (CoreInv /\ DevLocking)'
    BY CoreNext, DevLockingNext
  <1>3. CoreInv /\ DevLocking => UnregisterQuiesces
    <2> SUFFICES ASSUME CoreInv, DevLocking, NEW d \in Devs, NEW a \in Appls,
                        pc[d] \in {"none", "unregistered"}, InDriverOp(a, d)
                 PROVE  FALSE
      BY DEF UnregisterQuiesces
    <2>1. d \notin capi_devs_list
      BY DEF CoreInv, ListWalks
    <2>2. pc[a] = "in_put" /\ at[a] = d
      BY <2>1 DEF InDriverOp, CoreInv, ListWalks, DevLocking, ReleaseListed
    <2>3. a \in dev_sem[d]
      BY <2>2 DEF DevLocking, InOpHolds
    <2>4. dev_sem[d] = {d} \/ dev_sem[d] = {}
      BY DEF DevLocking, DriverHolds, PutIsQuiet, OutOfReach, Closed
    <2> QED
      BY <2>3, <2>4, ThreadsAssumption
  <1> QED
    BY <1>1, <1>2, <1>3, PTL DEF Spec

-------------------------------------------------------------------------------
(* References, meeting and release. *)

(* A device that has a number, and where an application is with regard to  *)
(* the application list and to its walks over the devices.                 *)
Numbered == Operating \cup {"unlist", "quiesce", "count", "unregistered"}
OutsideList == {"unregistered", "bind"}
InList == {"walk", "in_register", "get", "idle", "trylock", "in_put", "release",
           "loop", "in_release", "put"}
Releasing == {"loop", "in_release", "put"}
Walking == {"walk", "in_register", "get"}

(* Applications are on the list while they are registered, hold no bit     *)
(* otherwise, and have not begun to release bits before capi_release.      *)
Placed(a) ==
  /\ pc[a] \in OutsideList => a \notin capi_appls_list
  /\ pc[a] \in InList => a \in capi_appls_list
  /\ a \notin capi_appls_list => Held(a) = {}
  /\ pc[a] = "bind" \/ (a \in capi_appls_list /\ pc[a] \notin Releasing)
       => cursor[a] = 1
ApplPlaces == \A a \in Appls : Placed(a)

(* The table and the device numbers agree. *)
HasNumber(d) ==
  /\ pc[d] \in {"allocated", "bind"} => id[d] = 0
  /\ pc[d] \in Numbered => capi_devs_table[id[d]] = d
  /\ pc[d] = "failed" => id[d] = 0 \/ capi_devs_table[id[d]] = d
TableNumbers == UniqueNumbers /\ \A d \in Devs : HasNumber(d)

(* A bit that an application still owns leads to a device. *)
HeldBits == \A a \in Appls : \A i \in Held(a) : capi_devs_table[i] # NoDev

(* A walk meets only what it has not yet connected. *)
DriverWalk(d) ==
  pc[d] \in {"walk", "get"} =>
    \A a \in Appls : id[d] \in Held(a) => a \in walked[d]
ApplWalk(a) ==
  /\ pc[a] \in Walking => \A i \in Held(a) : capi_devs_table[i] \in walked[a]
  /\ pc[a] = "in_register" => \A i \in Held(a) : capi_devs_table[i] # at[a]
  /\ pc[a] \in {"in_register", "get"} => at[a] \in walked[a]
WalksNew == (\A d \in Devs : DriverWalk(d)) /\ (\A a \in Appls : ApplWalk(a))

(* What the local variable dev of an application thread points to. *)
Local(a) ==
  /\ pc[a] \in OutsideList \cup {"idle", "release", "loop"} => at[a] = NoDev
  /\ pc[a] = "walk" => at[a] \in capi_devs_list \cup {NoDev}
  /\ pc[a] = "get" => id[at[a]] \in devs[a]
  /\ pc[a] \in {"in_release", "put"} =>
       cursor[a] \in devs[a] /\ capi_devs_table[cursor[a]] = at[a]
  /\ pc[a] = "trylock" => \E i \in devs[a] : capi_devs_table[i] = at[a]
Locals == \A a \in Appls : Local(a)

RefInv == ApplPlaces /\ TableNumbers /\ HeldBits /\ WalksNew /\ Locals /\ RefcountExact

-------------------------------------------------------------------------------
(* What the invariant says of a state *)

LEMMA HeldSlots ==
  ASSUME TypeOK, NEW a \in Appls
  PROVE  /\ Held(a) \subseteq Slots /\ Slots \subseteq Nat /\ 0 \notin Slots
         /\ \A i : i \in Held(a) <=> i \in devs[a] /\ i >= cursor[a]
         /\ cursor[a] = 1 => Held(a) = devs[a]
  BY SizesAssumption DEF Held, TypeOK, Slots

LEMMA Finite ==
  ASSUME NEW d \in Devs
  PROVE  /\ IsFiniteSet(Holders(d)) /\ Cardinality(Holders(d)) \in Nat
         /\ IsFiniteSet(Unpaid(d)) /\ Cardinality(Unpaid(d)) \in Nat
  <1>1. IsFiniteSet(Threads)
    BY ThreadsAssumption, FS_Union DEF Threads
  <1>2. Holders(d) \in SUBSET Threads /\ Unpaid(d) \in SUBSET Threads
    BY DEF Holders, Unpaid, Threads
  <1>3. IsFiniteSet(Holders(d)) /\ IsFiniteSet(Unpaid(d))
    BY <1>1, <1>2, FS_Subset
  <1> QED
    BY <1>3, FS_CardinalityType

(* Who has set a bit and not yet taken the reference is the driver itself, *)
(* or an application that walks over the listed device.                    *)
LEMMA UnpaidListed ==
  ASSUME ListWalks, NEW d \in Devs, pc[d] # "get"
  PROVE  \A t \in Unpaid(d) : t \in Appls /\ pc[t] = "get" /\ at[t] = d /\ d \in capi_devs_list
  BY ThreadsAssumption DEF Unpaid, ListWalks

LEMMA UnpaidHold ==
  ASSUME TypeOK, ListWalks, ApplPlaces, TableNumbers, Locals, NEW d \in Devs, pc[d] # "get"
  PROVE  Unpaid(d) \subseteq Holders(d)
  <1> SUFFICES ASSUME NEW t \in Unpaid(d) PROVE t \in Holders(d)
    OBVIOUS
  <1>1. t \in Appls /\ pc[t] = "get" /\ at[t] = d /\ d \in capi_devs_list
    BY UnpaidListed
  <1>2. id[d] \in devs[t] /\ cursor[t] = 1
    BY <1>1 DEF Locals, Local, ApplPlaces, Placed, InList, Releasing
  <1>3. capi_devs_table[id[d]] = d
    BY <1>1 DEF ListWalks, TableNumbers, HasNumber, Numbered, Operating
  <1> QED
    BY <1>1, <1>2, <1>3, HeldSlots DEF Holders

LEMMA Positive ==
  ASSUME TypeOK, ListWalks, RefInv, NEW d \in Devs, pc[d] # "none"
  PROVE  refcount[d] > 0
  <1>1. CASE pc[d] = "get"
    <2>1. capi_devs_table[id[d]] = d /\ id[d] \in Slots
      BY <1>1 DEF ListWalks, RefInv, TableNumbers, HasNumber, Numbered, Operating
    <2> QED
      BY <2>1, ThreadsAssumption DEF RefInv, TableNumbers, UniqueNumbers
  <1>2. CASE pc[d] # "get"
    <2>1. Unpaid(d) \in SUBSET Holders(d)
      BY <1>2, UnpaidHold DEF RefInv
    <2>2. Cardinality(Unpaid(d)) <= Cardinality(Holders(d))
      BY <2>1, Finite, FS_Subset
    <2>3. DriverRefs(d) = 1
      BY DEF DriverRefs
    <2> QED
      BY <2>2, <2>3, Finite DEF RefInv, RefcountExact
  <1> QED
    BY <1>1, <1>2

(* When a driver drops the last reference, no application owns a bit of    *)
(* its device.                                                             *)
LEMMA LastPut ==
  ASSUME TypeOK, ListWalks, RefInv, NEW d \in Devs,
         pc[d] \in {"allocated", "failed", "unregistered"}, refcount[d] = 1
  PROVE  \A a \in Appls : \A i \in Held(a) : capi_devs_table[i] # d
  <1>1. Unpaid(d) = {}
    BY UnpaidListed DEF ListWalks
  <1>2. Cardinality(Holders(d)) = 0
    BY <1>1, Finite, FS_EmptySet DEF RefInv, RefcountExact, DriverRefs
  <1>3. Holders(d) = {}
    BY <1>2, Finite, FS_EmptySet
  <1> QED
    BY <1>3 DEF Holders

(* When an application drops the last reference, its driver has put the    *)
(* device, and no other application owns a bit of it.                      *)
LEMMA LastRelease ==
  ASSUME CoreInv, RefInv, NEW a \in Appls, pc[a] = "put"
  PROVE  /\ at[a] \in Devs /\ cursor[a] \in Held(a)
         /\ capi_devs_table[cursor[a]] = at[a] /\ id[at[a]] = cursor[a]
         /\ refcount[at[a]] = 1 =>
              /\ pc[at[a]] = "none"
              /\ \A b \in Appls : b # a => \A i \in Held(b) : capi_devs_table[i] # at[a]
  <1> DEFINE d == at[a]
  <1>0. TypeOK /\ ListLocking /\ ListWalks
    BY DEF CoreInv
  <1>1. cursor[a] \in devs[a] /\ capi_devs_table[cursor[a]] = d
    BY DEF RefInv, Locals, Local
  <1>2. cursor[a] \in Held(a) /\ cursor[a] \in Slots
    <2>1. cursor[a] \in Nat
      BY <1>0, SizesAssumption DEF TypeOK
    <2> QED
      BY <1>0, <1>1, <2>1, HeldSlots
  <1>3. d \in Devs
    BY <1>0, <1>1, <1>2 DEF RefInv, HeldBits, TypeOK
  <1>4. id[d] = cursor[a]
    BY <1>1, <1>2, <1>3, ThreadsAssumption DEF RefInv, TableNumbers, UniqueNumbers
  <1>5. SUFFICES ASSUME refcount[d] = 1
                 PROVE  /\ pc[d] = "none"
                        /\ \A b \in Appls : b # a => \A i \in Held(b) : capi_devs_table[i] # d
    BY <1>1, <1>2, <1>3, <1>4
  <1>6. pc[d] # "get"
    BY <1>0, <1>3, ThreadsAssumption DEF ListLocking
  <1>7. a \in Holders(d) /\ a \notin Unpaid(d)
    BY <1>1, <1>2 DEF Holders, Unpaid
  <1>8. Unpaid(d) \in SUBSET (Holders(d) \ {a})
    BY <1>0, <1>3, <1>6, <1>7, UnpaidHold DEF RefInv
  <1>9. /\ IsFiniteSet(Holders(d) \ {a})
        /\ Cardinality(Holders(d) \ {a}) = Cardinality(Holders(d)) - 1
    BY <1>3, <1>7, Finite, FS_RemoveElement
  <1>10. Cardinality(Unpaid(d)) <= Cardinality(Holders(d)) - 1
    BY <1>8, <1>9, FS_Subset
  <1>11. DriverRefs(d) = 0 /\ Cardinality(Unpaid(d)) = Cardinality(Holders(d)) - 1
    BY <1>3, <1>5, <1>10, Finite DEF RefInv, RefcountExact, DriverRefs
  <1>12. pc[d] = "none"
    BY <1>11 DEF DriverRefs
  <1>13. Unpaid(d) = {}
    BY <1>0, <1>3, <1>12, UnpaidListed DEF ListWalks
  <1>14. Holders(d) \ {a} = {}
    BY <1>9, <1>11, <1>13, FS_EmptySet
  <1> QED
    BY <1>12, <1>14 DEF Holders

-------------------------------------------------------------------------------
(* Steps that change no reference and no bit *)

SameBits == \A a \in Appls : Held(a)' = Held(a)
SamePlaces(t) ==
  \A a \in Appls : a # t =>
    /\ a \in capi_appls_list' <=> a \in capi_appls_list
    /\ pc'[a] = pc[a] /\ devs'[a] = devs[a] /\ cursor'[a] = cursor[a] /\ at'[a] = at[a]
    /\ walked'[a] = walked[a]
Quiet(t, q) ==
  /\ pc' = [pc EXCEPT ![t] = q] /\ pc[t] # "get" /\ q # "get"
  /\ UNCHANGED <<capi_devs_table, id, refcount>>
  /\ SameBits /\ SamePlaces(t)

DriverMoves(d, q) ==
  /\ q \in DevPC /\ Quiet(d, q)
  /\ q # "none" /\ pc[d] # "none"
  /\ q \in {"allocated", "bind"} => pc[d] \in {"allocated", "bind"}
  /\ q \in Numbered => pc[d] \in Numbered
  /\ q = "failed" => pc[d] \in Numbered \cup {"bind"}
  /\ q = "walk" => pc[d] = "walk" /\ walked[d] \subseteq walked'[d]
  /\ \A x \in Devs : x # d => walked'[x] = walked[x]
  /\ capi_devs_list \subseteq capi_devs_list' \/ \A a \in Appls : pc[a] # "walk"

ApplMoves(a, q) ==
  /\ q \in ApplPC /\ Quiet(a, q)
  /\ capi_devs_list' = capi_devs_list
  /\ \A d \in Devs : walked'[d] = walked[d]
  /\ Placed(a)' /\ ApplWalk(a)' /\ Local(a)'

LEMMA QuietCounts ==
  ASSUME TypeOK, RefcountExact, NEW t \in Threads, NEW q, Quiet(t, q),
         t \in Devs => pc[t] # "none" /\ q # "none"
  PROVE  RefcountExact'
  <1> SUFFICES ASSUME NEW d \in Devs
               PROVE  refcount'[d] = DriverRefs(d)' + Cardinality(Holders(d)')
                                       - Cardinality(Unpaid(d)')
    BY DEF RefcountExact
  <1>1. Holders(d)' = Holders(d)
    BY DEF Holders, Quiet, SameBits
  <1>2. pc'[d] = "none" <=> pc[d] = "none"
    BY ThreadsAssumption DEF Quiet, TypeOK, Threads
  <1>3. DriverRefs(d)' = DriverRefs(d)
    BY <1>2 DEF DriverRefs
  <1>4. \A s \in Threads : (pc'[s] = "get" <=> pc[s] = "get") /\ (pc[s] = "get" => s # t)
    BY DEF Quiet, TypeOK
  <1>5. Unpaid(d)' = Unpaid(d)
    BY <1>4 DEF Unpaid, Quiet, SamePlaces
  <1> QED
    BY <1>1, <1>3, <1>5 DEF RefcountExact, Quiet

LEMMA DriverMovesKeep ==
  ASSUME CoreInv, RefInv, NEW d \in Devs, NEW q, DriverMoves(d, q)
  PROVE  RefInv'
  <1>1. TypeOK /\ d \in Threads /\ \A a \in Appls : a # d
    BY ThreadsAssumption DEF CoreInv, Threads
  <1>2. /\ capi_devs_table' = capi_devs_table /\ id' = id /\ refcount' = refcount
        /\ SameBits /\ pc'[d] = q /\ \A x \in Devs : x # d => pc'[x] = pc[x]
        /\ \A a \in Appls :
             /\ a \in capi_appls_list' <=> a \in capi_appls_list
             /\ pc'[a] = pc[a] /\ devs'[a] = devs[a] /\ cursor'[a] = cursor[a]
             /\ at'[a] = at[a] /\ walked'[a] = walked[a] /\ Held(a)' = Held(a)
    BY <1>1 DEF DriverMoves, Quiet, TypeOK, Threads, SamePlaces, SameBits
  <1>3. RefcountExact'
    BY <1>1, QuietCounts DEF RefInv, DriverMoves
  <1>4. ApplPlaces'
    BY <1>2 DEF RefInv, ApplPlaces, Placed
  <1>5. TableNumbers'
    <2>1. UniqueNumbers'
      BY <1>2 DEF RefInv, TableNumbers, UniqueNumbers
    <2>2. ASSUME NEW x \in Devs PROVE HasNumber(x)'
      BY <1>2 DEF RefInv, TableNumbers, HasNumber, DriverMoves
    <2> QED
      BY <2>1, <2>2 DEF TableNumbers
  <1>6. HeldBits'
    BY <1>2 DEF RefInv, HeldBits
  <1>7. WalksNew'
    <2>1. ASSUME NEW x \in Devs PROVE DriverWalk(x)'
      <3>1. pc'[x] \in {"walk", "get"} => pc[x] \in {"walk", "get"} /\ walked[x] \subseteq walked'[x]
        BY <1>1, <1>2 DEF DriverMoves, Quiet
      <3> QED
        BY <1>2, <3>1 DEF RefInv, WalksNew, DriverWalk
    <2>2. ASSUME NEW a \in Appls PROVE ApplWalk(a)'
      BY <1>2 DEF RefInv, WalksNew, ApplWalk
    <2> QED
      BY <2>1, <2>2 DEF WalksNew
  <1>8. Locals'
    <2> SUFFICES ASSUME NEW a \in Appls PROVE Local(a)'
      BY DEF Locals
    <2> QED
      BY <1>2 DEF RefInv, Locals, Local, DriverMoves
  <1> QED
    BY <1>3, <1>4, <1>5, <1>6, <1>7, <1>8 DEF RefInv

LEMMA ApplMovesKeep ==
  ASSUME CoreInv, RefInv, NEW a \in Appls, NEW q, ApplMoves(a, q)
  PROVE  RefInv'
  <1>1. TypeOK /\ a \in Threads /\ \A d \in Devs : a # d
    BY ThreadsAssumption DEF CoreInv, Threads
  <1>2. /\ capi_devs_table' = capi_devs_table /\ id' = id /\ refcount' = refcount
        /\ capi_devs_list' = capi_devs_list
        /\ \A x \in Devs : pc'[x] = pc[x] /\ walked'[x] = walked[x]
        /\ \A b \in Appls : Held(b)' = Held(b)
        /\ \A b \in Appls : b # a =>
             /\ b \in capi_appls_list' <=> b \in capi_appls_list
             /\ pc'[b] = pc[b] /\ devs'[b] = devs[b] /\ cursor'[b] = cursor[b]
             /\ at'[b] = at[b] /\ walked'[b] = walked[b]
        /\ Placed(a)' /\ ApplWalk(a)' /\ Local(a)'
    BY <1>1 DEF ApplMoves, Quiet, TypeOK, Threads, SamePlaces, SameBits
  <1>3. RefcountExact'
    BY <1>1, QuietCounts DEF RefInv, ApplMoves
  <1>4. ApplPlaces'
    <2> SUFFICES ASSUME NEW b \in Appls PROVE Placed(b)'
      BY DEF ApplPlaces
    <2> QED
      BY <1>2 DEF RefInv, ApplPlaces, Placed
  <1>5. TableNumbers'
    BY <1>2 DEF RefInv, TableNumbers, UniqueNumbers, HasNumber
  <1>6. HeldBits'
    BY <1>2 DEF RefInv, HeldBits
  <1>7. WalksNew'
    <2>1. ASSUME NEW x \in Devs PROVE DriverWalk(x)'
      BY <1>2 DEF RefInv, WalksNew, DriverWalk
    <2>2. ASSUME NEW b \in Appls PROVE ApplWalk(b)'
      BY <1>2 DEF RefInv, WalksNew, ApplWalk
    <2> QED
      BY <2>1, <2>2 DEF WalksNew
  <1>8. Locals'
    <2> SUFFICES ASSUME NEW b \in Appls PROVE Local(b)'
      BY DEF Locals
    <2> QED
      BY <1>2 DEF RefInv, Locals, Local
  <1> QED
    BY <1>3, <1>4, <1>5, <1>6, <1>7, <1>8 DEF RefInv

-------------------------------------------------------------------------------
(* Driver steps *)

(* kmalloc: the device was free, so that no slot leads to it. *)
LEMMA AllocKeeps ==
  ASSUME CoreInv, RefInv, NEW d \in Devs, capi_device_alloc(d)
  PROVE  RefInv'
  <1>1. /\ TypeOK /\ ListWalks /\ d \in Threads /\ \A a \in Appls : a # d
        /\ UniqueNumbers /\ RefcountExact /\ ApplPlaces /\ HeldBits /\ WalksNew /\ Locals
        /\ \A x \in Devs : HasNumber(x)
    BY ThreadsAssumption DEF CoreInv, Threads, RefInv, TableNumbers
  <1>2. /\ pc[d] = "none" /\ pc'[d] = "allocated" /\ refcount[d] = 0 /\ refcount'[d] = 1
        /\ id'[d] = 0
        /\ \A x \in Devs : x # d => id'[x] = id[x] /\ refcount'[x] = refcount[x]
        /\ \A t \in Threads : t # d => pc'[t] = pc[t]
        /\ UNCHANGED <<capi_devs_table, capi_devs_list, capi_appls_list, devs, cursor, at,
                       walked>>
    BY <1>1 DEF capi_device_alloc, Goto, TypeOK, appl, locals
  <1>3. \A a \in Appls : pc'[a] = pc[a] /\ Held(a)' = Held(a)
    BY <1>1, <1>2 DEF Held, Threads
  <1>4. \A i \in Slots : capi_devs_table[i] # d
    BY <1>1, <1>2, ThreadsAssumption DEF UniqueNumbers
  <1>5. RefcountExact'
    <2> SUFFICES ASSUME NEW x \in Devs
                 PROVE  refcount'[x] = DriverRefs(x)' + Cardinality(Holders(x)')
                                         - Cardinality(Unpaid(x)')
      BY DEF RefcountExact
    <2>1. Holders(x)' = Holders(x)
      BY <1>2, <1>3 DEF Holders
    <2>2. Unpaid(x)' = Unpaid(x)
      BY <1>2 DEF Unpaid
    <2>3. refcount'[x] - DriverRefs(x)' = refcount[x] - DriverRefs(x)
          /\ refcount'[x] \in Int /\ refcount[x] \in Int
          /\ DriverRefs(x)' \in Int /\ DriverRefs(x) \in Int
      BY <1>1, <1>2 DEF DriverRefs, Threads, TypeOK
    <2> QED
      BY <1>1, <2>1, <2>2, <2>3, Finite DEF RefcountExact
  <1>6. ApplPlaces'
    BY <1>1, <1>2, <1>3 DEF ApplPlaces, Placed
  <1>7. TableNumbers'
    <2>1. UniqueNumbers'
      BY <1>1, <1>2, <1>4 DEF UniqueNumbers, TypeOK
    <2>2. ASSUME NEW x \in Devs PROVE HasNumber(x)'
      BY <1>1, <1>2 DEF HasNumber, Numbered, Operating, Threads
    <2> QED
      BY <2>1, <2>2 DEF TableNumbers
  <1>8. HeldBits'
    BY <1>1, <1>2, <1>3 DEF HeldBits
  <1>9. WalksNew'
    <2>1. ASSUME NEW x \in Devs PROVE DriverWalk(x)'
      BY <1>1, <1>2, <1>3 DEF WalksNew, DriverWalk, Threads
    <2>2. ASSUME NEW a \in Appls PROVE ApplWalk(a)'
      BY <1>1, <1>2, <1>3 DEF WalksNew, ApplWalk
    <2> QED
      BY <2>1, <2>2 DEF WalksNew
  <1>10. Locals'
    <2> SUFFICES ASSUME NEW a \in Appls PROVE Local(a)'
      BY DEF Locals
    <2>1. pc[a] = "get" => at[a] \in Devs /\ at[a] # d
      BY <1>1, <1>2 DEF ListWalks, TypeOK
    <2> QED
      BY <1>1, <1>2, <1>3, <2>1 DEF Locals, Local
  <1> QED
    BY <1>5, <1>6, <1>7, <1>8, <1>9, <1>10 DEF RefInv

(* add_capi_device: nobody owns the bit of the free slot. *)
LEMMA BindKeeps ==
  ASSUME CoreInv, RefInv, NEW d \in Devs, bind_capi_device(d), Goto(d, "bind", "walk"),
         capi_devs_table' = [capi_devs_table EXCEPT ![add_capi_device] = d],
         add_capi_device # 0
  PROVE  RefInv'
  <1> DEFINE s == add_capi_device
  <1>1. /\ TypeOK /\ ListWalks /\ ListLocking /\ d \in Threads /\ \A a \in Appls : a # d
        /\ UniqueNumbers /\ RefcountExact /\ ApplPlaces /\ HeldBits /\ WalksNew /\ Locals
        /\ \A x \in Devs : HasNumber(x)
    BY ThreadsAssumption DEF CoreInv, Threads, RefInv, TableNumbers
  <1>2. s \in Slots /\ capi_devs_table[s] = NoDev
    BY AddDevice
  <1> HIDE DEF s
  <1>3. /\ pc[d] = "bind" /\ pc'[d] = "walk" /\ id'[d] = s
        /\ capi_devs_table'[s] = d /\ list_sem = {}
        /\ \A i \in Slots : i # s => capi_devs_table'[i] = capi_devs_table[i]
        /\ \A x \in Devs : x # d => id'[x] = id[x]
        /\ \A t \in Threads : t # d => pc'[t] = pc[t]
        /\ UNCHANGED <<capi_devs_list, refcount, capi_appls_list, devs, cursor, at, walked>>
    BY <1>1, <1>2 DEF bind_capi_device, CanWriteList, Goto, TypeOK, appl, locals, s
  <1>4. \A a \in Appls : pc'[a] = pc[a] /\ Held(a)' = Held(a) /\ Held(a) \subseteq Slots
    BY <1>1, <1>3, HeldSlots DEF Held, Threads
  <1>5. \A a \in Appls : \A i \in Held(a) : i # s /\ capi_devs_table'[i] = capi_devs_table[i]
    BY <1>1, <1>2, <1>3, <1>4 DEF HeldBits
  <1>6. \A a \in Appls : pc[a] \notin {"walk", "in_register", "get", "loop", "in_release", "put"}
    BY <1>1, <1>3 DEF ListLocking
  <1>7. RefcountExact'
    <2> SUFFICES ASSUME NEW x \in Devs
                 PROVE  refcount'[x] = DriverRefs(x)' + Cardinality(Holders(x)')
                                         - Cardinality(Unpaid(x)')
      BY DEF RefcountExact
    <2>1. Holders(x)' = Holders(x)
      BY <1>4, <1>5 DEF Holders
    <2>2. Unpaid(x)' = Unpaid(x)
      BY <1>3 DEF Unpaid
    <2>3. DriverRefs(x)' = DriverRefs(x)
      BY <1>1, <1>3 DEF DriverRefs, Threads
    <2> QED
      BY <1>1, <1>3, <2>1, <2>2, <2>3 DEF RefcountExact
  <1>8. ApplPlaces'
    BY <1>1, <1>3, <1>4 DEF ApplPlaces, Placed
  <1>9. refcount[d] > 0
    BY <1>1, <1>3, Positive
  <1>10. TableNumbers'
    <2>1. \A i \in Slots : capi_devs_table[i] # d
      BY <1>1, <1>2, <1>3, HeldSlots, SizesAssumption, ThreadsAssumption
      DEF UniqueNumbers, HasNumber, Slots
    <2>2. UniqueNumbers'
      BY <1>1, <1>2, <1>3, <1>9, <2>1 DEF UniqueNumbers, TypeOK
    <2>3. ASSUME NEW x \in Devs PROVE HasNumber(x)'
      <3>1. CASE x = d
        BY <1>3, <3>1 DEF HasNumber
      <3>2. CASE x # d
        <4>1. \A i : capi_devs_table[i] = x /\ i \in Slots => capi_devs_table'[i] = x
          BY <1>2, <1>3, ThreadsAssumption
        <4>2. pc[x] \in Numbered => id[x] \in Slots
          BY <1>1 DEF ListWalks, Numbered
        <4>3. id[x] \in 0 .. MaxDevs /\ (id[x] = 0 \/ id[x] \in Slots)
          BY <1>1, SizesAssumption DEF TypeOK, Slots
        <4> QED
          BY <1>1, <1>3, <3>2, <4>1, <4>2, <4>3 DEF HasNumber, Threads
      <3> QED
        BY <3>1, <3>2
    <2> QED
      BY <2>2, <2>3 DEF TableNumbers
  <1>11. HeldBits'
    BY <1>1, <1>4, <1>5 DEF HeldBits
  <1>12. WalksNew'
    <2>1. ASSUME NEW x \in Devs PROVE DriverWalk(x)'
      BY <1>1, <1>3, <1>4, <1>5 DEF WalksNew, DriverWalk, Threads
    <2>2. ASSUME NEW a \in Appls PROVE ApplWalk(a)'
      BY <1>3, <1>4, <1>6 DEF ApplWalk, Walking
    <2> QED
      BY <2>1, <2>2 DEF WalksNew
  <1>13. Locals'
    <2> SUFFICES ASSUME NEW a \in Appls PROVE Local(a)'
      BY DEF Locals
    <2>1. pc[a] = "trylock" => \E i \in devs[a] : capi_devs_table'[i] = at[a]
      <3>1. pc[a] = "trylock" => Held(a) = devs[a]
        BY <1>1, HeldSlots DEF ApplPlaces, Placed, InList, Releasing
      <3> QED
        BY <1>1, <1>5, <3>1 DEF Locals, Local
    <2> QED
      BY <1>1, <1>3, <1>4, <1>6, <2>1 DEF Locals, Local
  <1> QED
    BY <1>7, <1>8, <1>10, <1>11, <1>12, <1>13 DEF RefInv

(* register_capi_appl on the driver's side, when its callback accepts: the *)
(* driver writes the list alone, and meets the application for the first   *)
(* time.                                                                   *)
DriverAccepts(d, a) ==
  /\ pc[d] = "walk" /\ pc' = [pc EXCEPT ![d] = "get"]
  /\ a \in capi_appls_list \ walked[d]
  /\ walked' = [walked EXCEPT ![d] = @ \cup {a}]
  /\ devs' = [devs EXCEPT ![a] = @ \cup {id[d]}]
  /\ UNCHANGED <<capi_devs_table, capi_devs_list, id, refcount, capi_appls_list,
                 cursor, at>>

LEMMA DriverAcceptKeeps ==
  ASSUME CoreInv, RefInv, NEW d \in Devs, NEW a \in Appls, DriverAccepts(d, a)
  PROVE  RefInv'
  <1>1. /\ TypeOK /\ ListWalks /\ ListLocking /\ d \in Threads /\ \A b \in Appls : b # d
        /\ UniqueNumbers /\ RefcountExact /\ ApplPlaces /\ HeldBits /\ WalksNew /\ Locals
        /\ \A x \in Devs : HasNumber(x)
    BY ThreadsAssumption DEF CoreInv, Threads, RefInv, TableNumbers
  <1>2. /\ pc[d] = "walk" /\ pc'[d] = "get"
        /\ a \in capi_appls_list /\ a \notin walked[d]
        /\ \A t \in Threads : t # d => pc'[t] = pc[t] /\ walked'[t] = walked[t]
        /\ walked'[d] = walked[d] \cup {a}
        /\ \A b \in Appls : b # a => devs'[b] = devs[b]
        /\ devs'[a] = devs[a] \cup {id[d]}
        /\ UNCHANGED <<capi_devs_table, capi_devs_list, id, refcount, capi_appls_list,
                       cursor, at>>
    BY <1>1 DEF DriverAccepts, TypeOK
  <1>3. \A b \in Appls : pc'[b] = pc[b] /\ walked'[b] = walked[b]
    BY <1>1, <1>2 DEF Threads
  <1>4. /\ \A b \in Appls : pc[b] \notin {"walk", "in_register", "get", "loop", "in_release", "put"}
        /\ \A x \in Devs : x # d => pc[x] \notin {"walk", "get", "open"}
    BY <1>1, <1>2 DEF ListLocking
  <1>5. id[d] \in Slots /\ capi_devs_table[id[d]] = d
    BY <1>1, <1>2 DEF ListWalks, HasNumber, Numbered, Operating
  <1>6. cursor[a] = 1
    BY <1>1, <1>2, <1>4 DEF ApplPlaces, Placed, Releasing
  <1>7. /\ \A b \in Appls : b # a => Held(b)' = Held(b)
        /\ Held(a)' = Held(a) \cup {id[d]}
    BY <1>2, <1>5, <1>6, SizesAssumption DEF Held, Slots
  <1>8. id[d] \notin Held(a)
    BY <1>1, <1>2 DEF WalksNew, DriverWalk
  <1>9. RefcountExact'
    <2> SUFFICES ASSUME NEW x \in Devs
                 PROVE  refcount'[x] = DriverRefs(x)' + Cardinality(Holders(x)')
                                         - Cardinality(Unpaid(x)')
      BY DEF RefcountExact
    <2>0. DriverRefs(x)' = DriverRefs(x) /\ DriverRefs(x) \in Int
      BY <1>1, <1>2 DEF DriverRefs, Threads
    <2>1. CASE x # d
      <3>1. Holders(x)' = Holders(x)
        BY <1>2, <1>5, <1>7, <2>1 DEF Holders
      <3>2. Unpaid(x)' = Unpaid(x)
        BY <1>1, <1>2, <1>4, <2>1, ThreadsAssumption DEF Unpaid, Threads
      <3> QED
        BY <1>1, <1>2, <2>0, <3>1, <3>2 DEF RefcountExact
    <2>2. CASE x = d
      <3>1. Holders(d)' = Holders(d) \cup {a}
        BY <1>2, <1>5, <1>7 DEF Holders
      <3>2. a \notin Holders(d)
        BY <1>1, <1>5, <1>8, HeldSlots, ThreadsAssumption DEF Holders, UniqueNumbers
      <3>3. Unpaid(d)' = Unpaid(d) \cup {d} /\ d \notin Unpaid(d)
        BY <1>1, <1>2, <1>3 DEF Unpaid, Threads
      <3>4. Cardinality(Holders(d)') = Cardinality(Holders(d)) + 1
        BY <3>1, <3>2, Finite, FS_AddElement
      <3>5. Cardinality(Unpaid(d)') = Cardinality(Unpaid(d)) + 1
        BY <3>3, Finite, FS_AddElement
      <3> QED
        BY <1>1, <1>2, <2>0, <2>2, <3>4, <3>5, Finite DEF RefcountExact
    <2> QED
      BY <2>1, <2>2
  <1>10. ApplPlaces'
    BY <1>1, <1>2, <1>3, <1>7 DEF ApplPlaces, Placed
  <1>11. TableNumbers'
    <2>1. UniqueNumbers'
      BY <1>1, <1>2 DEF UniqueNumbers
    <2>2. ASSUME NEW x \in Devs PROVE HasNumber(x)'
      BY <1>1, <1>2, <1>5 DEF HasNumber, Threads
    <2> QED
      BY <2>1, <2>2 DEF TableNumbers
  <1>12. HeldBits'
    BY <1>1, <1>2, <1>5, <1>7, ThreadsAssumption DEF HeldBits
  <1>13. WalksNew'
    <2>1. ASSUME NEW x \in Devs PROVE DriverWalk(x)'
      BY <1>1, <1>2, <1>4, <1>7 DEF WalksNew, DriverWalk, Threads
    <2>2. ASSUME NEW b \in Appls PROVE ApplWalk(b)'
      BY <1>3, <1>4 DEF ApplWalk, Walking
    <2> QED
      BY <2>1, <2>2 DEF WalksNew
  <1>14. Locals'
    <2> SUFFICES ASSUME NEW b \in Appls PROVE Local(b)'
      BY DEF Locals
    <2>1. devs[b] \subseteq devs'[b]
      BY <1>2
    <2> QED
      BY <1>1, <1>2, <1>3, <1>4, <2>1 DEF Locals, Local
  <1> QED
    BY <1>9, <1>10, <1>11, <1>12, <1>13, <1>14 DEF RefInv

(* The reference for the bit just set. *)
LEMMA DriverGetKeeps ==
  ASSUME CoreInv, RefInv, NEW d \in Devs, register_next_appl_get(d)
  PROVE  RefInv'
  <1>1. /\ TypeOK /\ ListWalks /\ ListLocking /\ d \in Threads /\ \A b \in Appls : b # d
        /\ UniqueNumbers /\ RefcountExact /\ ApplPlaces /\ HeldBits /\ WalksNew /\ Locals
        /\ \A x \in Devs : HasNumber(x)
    BY ThreadsAssumption DEF CoreInv, Threads, RefInv, TableNumbers
  <1>2. /\ pc[d] = "get" /\ pc'[d] = "walk"
        /\ \A t \in Threads : t # d => pc'[t] = pc[t]
        /\ refcount'[d] = refcount[d] + 1
        /\ \A x \in Devs : x # d => refcount'[x] = refcount[x]
        /\ UNCHANGED <<capi_devs_table, capi_devs_list, id, capi_appls_list, devs,
                       cursor, at, walked>>
    BY <1>1 DEF register_next_appl_get, capi_device_get, Goto, TypeOK, appl, locals
  <1>3. \A b \in Appls : pc'[b] = pc[b] /\ Held(b)' = Held(b)
    BY <1>1, <1>2 DEF Threads, Held
  <1>4. RefcountExact'
    <2> SUFFICES ASSUME NEW x \in Devs
                 PROVE  refcount'[x] = DriverRefs(x)' + Cardinality(Holders(x)')
                                         - Cardinality(Unpaid(x)')
      BY DEF RefcountExact
    <2>0. DriverRefs(x)' = DriverRefs(x) /\ DriverRefs(x) \in Int
      BY <1>1, <1>2 DEF DriverRefs, Threads
    <2>1. Holders(x)' = Holders(x)
      BY <1>2, <1>3 DEF Holders
    <2>2. CASE x # d
      <3>1. Unpaid(x)' = Unpaid(x)
        BY <1>1, <1>2, <2>2 DEF Unpaid, Threads
      <3> QED
        BY <1>1, <1>2, <2>0, <2>1, <2>2, <3>1 DEF RefcountExact
    <2>3. CASE x = d
      <3>1. Unpaid(d)' = Unpaid(d) \ {d} /\ d \in Unpaid(d)
        BY <1>1, <1>2, <1>3 DEF Unpaid, Threads
      <3>2. Cardinality(Unpaid(d)') = Cardinality(Unpaid(d)) - 1
        BY <3>1, Finite, FS_RemoveElement
      <3> QED
        BY <1>1, <1>2, <2>0, <2>1, <2>3, <3>2, Finite DEF RefcountExact
    <2> QED
      BY <2>2, <2>3
  <1>5. ApplPlaces'
    BY <1>1, <1>2, <1>3 DEF ApplPlaces, Placed
  <1>6. TableNumbers'
    <2>1. \A x \in Devs : refcount[x] > 0 => refcount'[x] > 0
      <3>1. refcount[d] \in Int
        BY <1>1 DEF TypeOK
      <3> QED
        BY <1>2, <3>1
    <2>2. UniqueNumbers'
      <3>1. \A i \in Slots : capi_devs_table[i] # NoDev => capi_devs_table[i] \in Devs
        BY <1>1 DEF TypeOK
      <3> QED
        BY <1>1, <1>2, <2>1, <3>1 DEF UniqueNumbers
    <2>3. ASSUME NEW x \in Devs PROVE HasNumber(x)'
      BY <1>1, <1>2 DEF HasNumber, Numbered, Operating, Threads
    <2> QED
      BY <2>2, <2>3 DEF TableNumbers
  <1>7. HeldBits'
    BY <1>1, <1>2, <1>3 DEF HeldBits
  <1>8. WalksNew'
    <2>1. ASSUME NEW x \in Devs PROVE DriverWalk(x)'
      BY <1>1, <1>2, <1>3 DEF WalksNew, DriverWalk, Threads
    <2>2. ASSUME NEW b \in Appls PROVE ApplWalk(b)'
      BY <1>1, <1>2, <1>3 DEF WalksNew, ApplWalk
    <2> QED
      BY <2>1, <2>2 DEF WalksNew
  <1>9. Locals'
    <2> SUFFICES ASSUME NEW b \in Appls PROVE Local(b)'
      BY DEF Locals
    <2> QED
      BY <1>1, <1>2, <1>3 DEF Locals, Local
  <1> QED
    BY <1>4, <1>5, <1>6, <1>7, <1>8, <1>9 DEF RefInv

(* free_capi_device clears the slot only when nobody owns the bit. *)
LEMMA DriverPutKeeps ==
  ASSUME CoreInv, RefInv, NEW d \in Devs, driver_put(d)
  PROVE  RefInv'
  <1>1. /\ TypeOK /\ ListWalks /\ ListLocking /\ d \in Threads /\ \A b \in Appls : b # d
        /\ UniqueNumbers /\ RefcountExact /\ ApplPlaces /\ HeldBits /\ WalksNew /\ Locals
        /\ \A x \in Devs : HasNumber(x)
    BY ThreadsAssumption DEF CoreInv, Threads, RefInv, TableNumbers
  <1>2. /\ pc[d] \in {"allocated", "failed", "unregistered"} /\ pc'[d] = "none"
        /\ \A t \in Threads : t # d => pc'[t] = pc[t]
        /\ refcount'[d] = refcount[d] - 1
        /\ \A x \in Devs : x # d => refcount'[x] = refcount[x]
        /\ \A i \in Slots : capi_devs_table'[i] =
             IF refcount[d] = 1 /\ i = id[d] THEN NoDev ELSE capi_devs_table[i]
        /\ UNCHANGED <<capi_devs_list, id, capi_appls_list, devs, cursor, at, walked>>
    BY <1>1 DEF driver_put, capi_device_put, Goto, TypeOK, appl, locals
  <1>3. \A b \in Appls : pc'[b] = pc[b] /\ Held(b)' = Held(b) /\ Held(b) \subseteq Slots
    BY <1>1, <1>2, HeldSlots DEF Threads, Held
  <1>4. \A i \in Slots : capi_devs_table'[i] = capi_devs_table[i]
                         \/ (refcount[d] = 1 /\ i = id[d] /\ capi_devs_table[i] = d
                             /\ capi_devs_table'[i] = NoDev)
    <2>1. id[d] \in Slots => capi_devs_table[id[d]] = d
      BY <1>1, <1>2, HeldSlots, SizesAssumption DEF HasNumber, Numbered, Slots
    <2> QED
      BY <1>2, <2>1
  <1>5. \A b \in Appls : \A i \in Held(b) : capi_devs_table'[i] = capi_devs_table[i]
    BY <1>1, <1>2, <1>3, <1>4, LastPut
  <1>6. RefcountExact'
    <2> SUFFICES ASSUME NEW x \in Devs
                 PROVE  refcount'[x] = DriverRefs(x)' + Cardinality(Holders(x)')
                                         - Cardinality(Unpaid(x)')
      BY DEF RefcountExact
    <2>1. Holders(x)' = Holders(x)
      BY <1>3, <1>5 DEF Holders
    <2>2. Unpaid(x)' = Unpaid(x)
      BY <1>2 DEF Unpaid
    <2>3. refcount'[x] - DriverRefs(x)' = refcount[x] - DriverRefs(x)
          /\ refcount'[x] \in Int /\ refcount[x] \in Int
          /\ DriverRefs(x)' \in Int /\ DriverRefs(x) \in Int
      BY <1>1, <1>2 DEF DriverRefs, Threads, TypeOK
    <2> QED
      BY <1>1, <2>1, <2>2, <2>3, Finite DEF RefcountExact
  <1>7. ApplPlaces'
    BY <1>1, <1>2, <1>3 DEF ApplPlaces, Placed
  <1>8. TableNumbers'
    <2>1. UniqueNumbers'
      <3> SUFFICES ASSUME NEW i \in Slots, capi_devs_table'[i] # NoDev
                   PROVE  refcount'[capi_devs_table'[i]] > 0 /\ id[capi_devs_table'[i]] = i
        BY <1>2 DEF UniqueNumbers
      <3> DEFINE x == capi_devs_table[i]
      <3>1. capi_devs_table'[i] = x /\ x \in Devs /\ refcount[x] > 0 /\ id[x] = i
        BY <1>1, <1>4 DEF UniqueNumbers, TypeOK
      <3>2. ~(x = d /\ refcount[d] = 1)
        BY <1>2, <3>1
      <3>3. refcount[x] \in Int
        BY <1>1, <3>1 DEF TypeOK
      <3> QED
        BY <1>2, <3>1, <3>2, <3>3
    <2>2. ASSUME NEW x \in Devs PROVE HasNumber(x)'
      <3>1. CASE x = d
        BY <1>2, <3>1 DEF HasNumber, Numbered, Operating
      <3>2. CASE x # d
        <4>1. \A i \in Slots : capi_devs_table[i] = x => capi_devs_table'[i] = x
          BY <1>4, <3>2
        <4>2. pc[x] \in Numbered => id[x] \in Slots
          BY <1>1 DEF ListWalks, Numbered
        <4>3. id[x] = 0 \/ id[x] \in Slots
          BY <1>1, SizesAssumption DEF TypeOK, Slots
        <4> QED
          BY <1>1, <1>2, <3>2, <4>1, <4>2, <4>3 DEF HasNumber, Threads
      <3> QED
        BY <3>1, <3>2
    <2> QED
      BY <2>1, <2>2 DEF TableNumbers
  <1>9. HeldBits'
    BY <1>1, <1>3, <1>5 DEF HeldBits
  <1>10. WalksNew'
    <2>1. ASSUME NEW x \in Devs PROVE DriverWalk(x)'
      BY <1>1, <1>2, <1>3 DEF WalksNew, DriverWalk, Threads
    <2>2. ASSUME NEW b \in Appls PROVE ApplWalk(b)'
      BY <1>1, <1>2, <1>3, <1>5 DEF WalksNew, ApplWalk
    <2> QED
      BY <2>1, <2>2 DEF WalksNew
  <1>11. Locals'
    <2> SUFFICES ASSUME NEW b \in Appls PROVE Local(b)'
      BY DEF Locals
    <2>1. pc[b] \in {"in_release", "put"} => cursor[b] \in Held(b)
      <3>1. cursor[b] >= cursor[b]
        BY <1>1, SizesAssumption DEF TypeOK
      <3> QED
        BY <1>1, <3>1, HeldSlots DEF Locals, Local
    <2>2. pc[b] = "trylock" => Held(b) = devs[b]
      BY <1>1, HeldSlots DEF ApplPlaces, Placed, InList, Releasing
    <2> QED
      BY <1>1, <1>2, <1>3, <1>5, <2>1, <2>2 DEF Locals, Local
  <1> QED
    BY <1>6, <1>7, <1>8, <1>9, <1>10, <1>11 DEF RefInv

(* The other steps of a driver change no reference. *)
LEMMA DriverKeepsRefs ==
  ASSUME CoreInv, RefInv, NEW d \in Devs, DriverGoesOn(d) \/ DriverBegins(d)
  PROVE  RefInv'
  <1>0. TypeOK /\ ListLocking /\ d \in Threads /\ \A a \in Appls : a # d
    BY ThreadsAssumption DEF CoreInv, Threads
  <1>a. ASSUME NEW q \in DevPC, pc' = [pc EXCEPT ![d] = q], pc[d] # "get", q # "get",
               UNCHANGED <<capi_devs_table, id, refcount, capi_appls_list, devs, cursor, at>>,
               \A t \in Threads : t # d => walked'[t] = walked[t]
        PROVE  Quiet(d, q) /\ \A x \in Devs : x # d => walked'[x] = walked[x]
    BY <1>0, <1>a DEF Quiet, SameBits, SamePlaces, Held, TypeOK, Threads
  <1>b. ASSUME NEW q \in DevPC, DriverMoves(d, q) PROVE RefInv'
    BY <1>b, DriverMovesKeep
  <1>1. ASSUME bind_capi_device(d) PROVE RefInv'
    <2>1. CASE /\ Goto(d, "bind", "walk") /\ add_capi_device # 0
               /\ capi_devs_table' = [capi_devs_table EXCEPT ![add_capi_device] = d]
      BY <1>1, <2>1, BindKeeps
    <2>2. CASE /\ Goto(d, "bind", "failed") /\ UNCHANGED capi_devs_table
               /\ add_capi_device = 0
      <3>1. id[d] = 0
        BY <2>2 DEF Goto, RefInv, TableNumbers, HasNumber
      <3>2. id' = id
        BY <1>0, <1>1, <2>2, <3>1 DEF bind_capi_device, TypeOK
      <3>3. DriverMoves(d, "failed")
        BY <1>0, <1>a, <1>1, <2>2, <3>2
        DEF bind_capi_device, Goto, DriverMoves, DevPC, Numbered, Operating, appl, locals
      <3> QED
        BY <1>b, <3>3 DEF DevPC
    <2> QED
      BY <1>1, <2>1, <2>2 DEF bind_capi_device
  <1>2. ASSUME register_next_appl(d) PROVE RefInv'
    <2>1. PICK a \in capi_appls_list \ walked[d] :
             /\ walked' = [walked EXCEPT ![d] = @ \cup {a}]
             /\ \/ /\ Goto(d, "walk", "get")
                   /\ devs' = [devs EXCEPT ![a] = @ \cup {id[d]}]
                \/ Goto(d, "walk", "walk") /\ UNCHANGED <<known, devs>>
      BY <1>2 DEF register_next_appl
    <2>2. CASE Goto(d, "walk", "get") /\ devs' = [devs EXCEPT ![a] = @ \cup {id[d]}]
      <3>1. DriverAccepts(d, a) /\ a \in Appls
        BY <1>0, <1>2, <2>1, <2>2 DEF register_next_appl, DriverAccepts, Goto, registry, TypeOK
      <3> QED
        BY <3>1, DriverAcceptKeeps
    <2>3. CASE Goto(d, "walk", "walk") /\ UNCHANGED devs
      <3>1. /\ \A t \in Threads : t # d => walked'[t] = walked[t]
            /\ walked[d] \subseteq walked'[d]
        BY <1>0, <2>1 DEF TypeOK
      <3>2. DriverMoves(d, "walk")
        BY <1>0, <1>a, <1>2, <2>3, <3>1
        DEF register_next_appl, Goto, DriverMoves, DevPC, Numbered, Operating, registry
      <3> QED
        BY <1>b, <3>2 DEF DevPC
    <2> QED
      BY <2>1, <2>2, <2>3
  <1>3. ASSUME register_next_appl_get(d) PROVE RefInv'
    BY <1>3, DriverGetKeeps
  <1>4. ASSUME bind_capi_device_open(d) PROVE RefInv'
    <2>1. \A t \in Threads : t # d => walked'[t] = walked[t]
      BY <1>0, <1>4 DEF bind_capi_device_open, TypeOK
    <2>2. DriverMoves(d, "open")
      BY <1>0, <1>a, <1>4, <2>1
      DEF bind_capi_device_open, Goto, DriverMoves, DevPC, Numbered, Operating, registry, appl
    <2> QED
      BY <1>b, <2>2 DEF DevPC
  <1>5. ASSUME bind_capi_device_done(d) PROVE RefInv'
    <2>1. DriverMoves(d, "sysfs")
      BY <1>0, <1>a, <1>5
      DEF bind_capi_device_done, Goto, DriverMoves, DevPC, Numbered, Operating, appl, locals
    <2> QED
      BY <1>b, <2>1 DEF DevPC
  <1>6. ASSUME capi_device_register_sysfs(d) PROVE RefInv'
    <2>1. DriverMoves(d, "registered") \/ DriverMoves(d, "fail_unlist")
      BY <1>0, <1>a, <1>6
      DEF capi_device_register_sysfs, Goto, DriverMoves, DevPC, Numbered, Operating,
          registry, appl, locals
    <2> QED
      BY <1>b, <2>1 DEF DevPC
  <1>7. ASSUME unregister_capi_device(d) PROVE RefInv'
    <2>1. \A a \in Appls : pc[a] # "walk"
      BY <1>0, <1>7 DEF unregister_capi_device, CanWriteList, ListLocking
    <2>2. DriverMoves(d, "quiesce") \/ DriverMoves(d, "fail_quiesce")
      BY <1>0, <1>a, <1>7, <2>1
      DEF unregister_capi_device, Goto, DriverMoves, DevPC, Numbered, Operating, appl, locals
    <2> QED
      BY <1>b, <2>2 DEF DevPC
  <1>8. ASSUME unregister_capi_device_quiesce(d) PROVE RefInv'
    <2>1. DriverMoves(d, "count") \/ DriverMoves(d, "fail_count")
      BY <1>0, <1>a, <1>8
      DEF unregister_capi_device_quiesce, Goto, DriverMoves, DevPC, Numbered, Operating,
          registry, appl, locals
    <2> QED
      BY <1>b, <2>1 DEF DevPC
  <1>9. ASSUME unregister_capi_device_count(d) PROVE RefInv'
    <2>1. DriverMoves(d, "unregistered") \/ DriverMoves(d, "failed")
      BY <1>0, <1>a, <1>9
      DEF unregister_capi_device_count, Goto, DriverMoves, DevPC, Numbered, Operating,
          appl, locals
    <2> QED
      BY <1>b, <2>1 DEF DevPC
  <1>10. ASSUME capi_device_alloc(d) PROVE RefInv'
    BY <1>10, AllocKeeps
  <1>11. ASSUME capi_device_register(d) PROVE RefInv'
    <2>1. DriverMoves(d, "bind")
      BY <1>0, <1>a, <1>11
      DEF capi_device_register, Goto, DriverMoves, DevPC, Numbered, Operating, registry,
          appl, locals
    <2> QED
      BY <1>b, <2>1 DEF DevPC
  <1>12. ASSUME capi_device_unregister(d) PROVE RefInv'
    <2>1. DriverMoves(d, "unlist")
      BY <1>0, <1>a, <1>12
      DEF capi_device_unregister, Goto, DriverMoves, DevPC, Numbered, Operating, registry,
          appl, locals
    <2> QED
      BY <1>b, <2>1 DEF DevPC
  <1>13. ASSUME driver_put(d) PROVE RefInv'
    BY <1>13, DriverPutKeeps
  <1> QED
    BY <1>1, <1>2, <1>3, <1>4, <1>5, <1>6, <1>7, <1>8, <1>9, <1>10, <1>11, <1>12, <1>13
    DEF DriverGoesOn, DriverBegins

-------------------------------------------------------------------------------
(* Application steps *)

(* register_capi_appl on the application's side, when the callback of the  *)
(* driver accepts: no driver walks, and the device is new.                 *)
ApplAccepts(a) ==
  /\ pc[a] = "in_register" /\ pc' = [pc EXCEPT ![a] = "get"]
  /\ devs' = [devs EXCEPT ![a] = @ \cup {id[at[a]]}]
  /\ UNCHANGED <<registry, locals>>

LEMMA ApplAcceptKeeps ==
  ASSUME CoreInv, RefInv, NEW a \in Appls, ApplAccepts(a)
  PROVE  RefInv'
  <1> DEFINE d == at[a]
  <1>1. /\ TypeOK /\ ListWalks /\ ListLocking /\ a \in Threads /\ \A x \in Devs : a # x
        /\ UniqueNumbers /\ RefcountExact /\ ApplPlaces /\ HeldBits /\ WalksNew /\ Locals
        /\ \A x \in Devs : HasNumber(x)
    BY ThreadsAssumption DEF CoreInv, Threads, RefInv, TableNumbers
  <1>2. /\ pc[a] = "in_register" /\ pc'[a] = "get"
        /\ \A t \in Threads : t # a => pc'[t] = pc[t]
        /\ \A b \in Appls : b # a => devs'[b] = devs[b]
        /\ devs'[a] = devs[a] \cup {id[d]}
        /\ UNCHANGED <<capi_devs_table, capi_devs_list, id, refcount, capi_appls_list,
                       cursor, at, walked>>
    BY <1>1 DEF ApplAccepts, TypeOK, registry, locals
  <1>3. \A x \in Devs : pc'[x] = pc[x]
    BY <1>1, <1>2 DEF Threads
  <1>4. \A x \in Devs : pc[x] \notin {"walk", "get", "open"}
    BY <1>1, <1>2 DEF ListLocking
  <1>5. d \in capi_devs_list /\ d \in Devs
    BY <1>1, <1>2 DEF ListWalks, TypeOK
  <1>6. id[d] \in Slots /\ capi_devs_table[id[d]] = d
    BY <1>1, <1>5 DEF ListWalks, HasNumber, Numbered, Operating
  <1> HIDE DEF d
  <1>7. cursor[a] = 1
    BY <1>1, <1>2 DEF ApplPlaces, Placed, InList, Releasing
  <1>8. /\ \A b \in Appls : b # a => Held(b)' = Held(b)
        /\ Held(a)' = Held(a) \cup {id[d]}
    BY <1>2, <1>6, <1>7, SizesAssumption DEF Held, Slots
  <1>9. \A i \in Held(a) : capi_devs_table[i] # d
    BY <1>1, <1>2 DEF WalksNew, ApplWalk, d
  <1>10. RefcountExact'
    <2> SUFFICES ASSUME NEW x \in Devs
                 PROVE  refcount'[x] = DriverRefs(x)' + Cardinality(Holders(x)')
                                         - Cardinality(Unpaid(x)')
      BY DEF RefcountExact
    <2>0. DriverRefs(x)' = DriverRefs(x) /\ DriverRefs(x) \in Int
      BY <1>3 DEF DriverRefs
    <2>1. CASE x # d
      <3>1. Holders(x)' = Holders(x)
        BY <1>2, <1>6, <1>8, <2>1 DEF Holders
      <3>2. Unpaid(x)' = Unpaid(x)
        BY <1>1, <1>2, <2>1 DEF Unpaid, d
      <3> QED
        BY <1>1, <1>2, <2>0, <3>1, <3>2 DEF RefcountExact
    <2>2. CASE x = d
      <3>1. Holders(x)' = Holders(x) \cup {a}
        BY <1>2, <1>6, <1>8, <2>2 DEF Holders
      <3>2. a \notin Holders(x)
        BY <1>9, <2>2 DEF Holders
      <3>3. Unpaid(x)' = Unpaid(x) \cup {a} /\ a \notin Unpaid(x)
        BY <1>1, <1>2, <2>2 DEF Unpaid, d
      <3>4. Cardinality(Holders(x)') = Cardinality(Holders(x)) + 1
        BY <3>1, <3>2, Finite, FS_AddElement
      <3>5. Cardinality(Unpaid(x)') = Cardinality(Unpaid(x)) + 1
        BY <3>3, Finite, FS_AddElement
      <3> QED
        BY <1>1, <1>2, <2>0, <2>2, <3>4, <3>5, Finite DEF RefcountExact
    <2> QED
      BY <2>1, <2>2
  <1>11. ApplPlaces'
    <2> SUFFICES ASSUME NEW b \in Appls PROVE Placed(b)'
      BY DEF ApplPlaces
    <2>1. CASE b = a
      BY <1>1, <1>2, <1>7, <2>1 DEF ApplPlaces, Placed, InList, OutsideList, Releasing
    <2>2. CASE b # a
      BY <1>1, <1>2, <1>8, <2>2 DEF ApplPlaces, Placed, Threads
    <2> QED
      BY <2>1, <2>2
  <1>12. TableNumbers'
    BY <1>1, <1>2, <1>3 DEF TableNumbers, UniqueNumbers, HasNumber
  <1>13. HeldBits'
    BY <1>1, <1>2, <1>5, <1>6, <1>8, ThreadsAssumption DEF HeldBits
  <1>14. WalksNew'
    <2>1. ASSUME NEW x \in Devs PROVE DriverWalk(x)'
      BY <1>3, <1>4 DEF DriverWalk
    <2>2. ASSUME NEW b \in Appls PROVE ApplWalk(b)'
      <3>1. CASE b = a
        BY <1>1, <1>2, <1>6, <1>8, <3>1 DEF WalksNew, ApplWalk, Walking, d
      <3>2. CASE b # a
        BY <1>1, <1>2, <1>8, <3>2 DEF WalksNew, ApplWalk, Threads
      <3> QED
        BY <3>1, <3>2
    <2> QED
      BY <2>1, <2>2 DEF WalksNew
  <1>15. Locals'
    <2> SUFFICES ASSUME NEW b \in Appls PROVE Local(b)'
      BY DEF Locals
    <2>1. CASE b = a
      BY <1>2, <2>1 DEF Local, OutsideList, d
    <2>2. CASE b # a
      BY <1>1, <1>2, <2>2 DEF Locals, Local, Threads
    <2> QED
      BY <2>1, <2>2
  <1> QED
    BY <1>10, <1>11, <1>12, <1>13, <1>14, <1>15 DEF RefInv

LEMMA ApplGetKeeps ==
  ASSUME CoreInv, RefInv, NEW a \in Appls, register_next_device_get(a)
  PROVE  RefInv'
  <1> DEFINE d == at[a]
  <1>1. /\ TypeOK /\ ListWalks /\ ListLocking /\ a \in Threads /\ \A x \in Devs : a # x
        /\ UniqueNumbers /\ RefcountExact /\ ApplPlaces /\ HeldBits /\ WalksNew /\ Locals
        /\ \A x \in Devs : HasNumber(x)
    BY ThreadsAssumption DEF CoreInv, Threads, RefInv, TableNumbers
  <1>2. pc[a] = "get" /\ d \in capi_devs_list /\ d \in Devs
    BY <1>1 DEF register_next_device_get, Goto, ListWalks, TypeOK
  <1>3. /\ pc'[a] = "walk"
        /\ \A t \in Threads : t # a => pc'[t] = pc[t]
        /\ refcount'[d] = refcount[d] + 1
        /\ \A x \in Devs : x # d => refcount'[x] = refcount[x]
        /\ UNCHANGED <<capi_devs_table, capi_devs_list, id, capi_appls_list, devs,
                       cursor, at, walked>>
    BY <1>1, <1>2
    DEF register_next_device_get, capi_device_get, Goto, TypeOK, appl, locals
  <1> HIDE DEF d
  <1>4. \A x \in Devs : pc'[x] = pc[x]
    BY <1>1, <1>3 DEF Threads
  <1>5. \A b \in Appls : Held(b)' = Held(b)
    BY <1>3 DEF Held
  <1>6. RefcountExact'
    <2> SUFFICES ASSUME NEW x \in Devs
                 PROVE  refcount'[x] = DriverRefs(x)' + Cardinality(Holders(x)')
                                         - Cardinality(Unpaid(x)')
      BY DEF RefcountExact
    <2>0. DriverRefs(x)' = DriverRefs(x) /\ DriverRefs(x) \in Int
      BY <1>4 DEF DriverRefs
    <2>1. Holders(x)' = Holders(x)
      BY <1>3, <1>5 DEF Holders
    <2>2. CASE x # d
      <3>1. Unpaid(x)' = Unpaid(x)
        BY <1>1, <1>2, <1>3, <2>2 DEF Unpaid, d
      <3> QED
        BY <1>1, <1>3, <2>0, <2>1, <2>2, <3>1 DEF RefcountExact
    <2>3. CASE x = d
      <3>1. Unpaid(x)' = Unpaid(x) \ {a} /\ a \in Unpaid(x)
        BY <1>1, <1>2, <1>3, <2>3 DEF Unpaid, d
      <3>2. Cardinality(Unpaid(x)') = Cardinality(Unpaid(x)) - 1
        BY <3>1, Finite, FS_RemoveElement
      <3> QED
        BY <1>1, <1>3, <2>0, <2>1, <2>3, <3>2, Finite DEF RefcountExact
    <2> QED
      BY <2>2, <2>3
  <1>7. ApplPlaces'
    <2> SUFFICES ASSUME NEW b \in Appls PROVE Placed(b)'
      BY DEF ApplPlaces
    <2>1. CASE b = a
      BY <1>1, <1>2, <1>3, <1>5, <2>1 DEF ApplPlaces, Placed, InList, OutsideList, Releasing
    <2>2. CASE b # a
      BY <1>1, <1>3, <1>5, <2>2 DEF ApplPlaces, Placed, Threads
    <2> QED
      BY <2>1, <2>2
  <1>8. TableNumbers'
    <2>1. \A x \in Devs : refcount[x] > 0 => refcount'[x] > 0
      <3>1. refcount[d] \in Int
        BY <1>1, <1>2 DEF TypeOK
      <3> QED
        BY <1>3, <3>1
    <2>2. UniqueNumbers'
      <3>1. \A i \in Slots : capi_devs_table[i] # NoDev => capi_devs_table[i] \in Devs
        BY <1>1 DEF TypeOK
      <3> QED
        BY <1>1, <1>3, <2>1, <3>1 DEF UniqueNumbers
    <2>3. ASSUME NEW x \in Devs PROVE HasNumber(x)'
      BY <1>1, <1>3, <1>4 DEF HasNumber
    <2> QED
      BY <2>2, <2>3 DEF TableNumbers
  <1>9. HeldBits'
    BY <1>1, <1>3, <1>5 DEF HeldBits
  <1>10. WalksNew'
    <2>1. ASSUME NEW x \in Devs PROVE DriverWalk(x)'
      BY <1>1, <1>3, <1>4, <1>5 DEF WalksNew, DriverWalk
    <2>2. ASSUME NEW b \in Appls PROVE ApplWalk(b)'
      <3>1. CASE b = a
        BY <1>1, <1>2, <1>3, <1>5, <3>1 DEF WalksNew, ApplWalk, Walking
      <3>2. CASE b # a
        BY <1>1, <1>3, <1>5, <3>2 DEF WalksNew, ApplWalk, Threads
      <3> QED
        BY <3>1, <3>2
    <2> QED
      BY <2>1, <2>2 DEF WalksNew
  <1>11. Locals'
    <2> SUFFICES ASSUME NEW b \in Appls PROVE Local(b)'
      BY DEF Locals
    <2>1. CASE b = a
      BY <1>2, <1>3, <2>1 DEF Local, OutsideList, d
    <2>2. CASE b # a
      BY <1>1, <1>3, <2>2 DEF Locals, Local, Threads
    <2> QED
      BY <2>1, <2>2
  <1> QED
    BY <1>6, <1>7, <1>8, <1>9, <1>10, <1>11 DEF RefInv

(* capi_release moves past a bit and drops its reference; the slot is      *)
(* cleared only when nobody else owns the bit.                             *)
LEMMA ApplPutKeeps ==
  ASSUME CoreInv, RefInv, NEW a \in Appls, capi_release_put(a)
  PROVE  RefInv'
  <1> DEFINE d == at[a]
             c == cursor[a]
  <1>1. /\ TypeOK /\ ListWalks /\ ListLocking /\ a \in Threads /\ \A x \in Devs : a # x
        /\ UniqueNumbers /\ RefcountExact /\ ApplPlaces /\ HeldBits /\ WalksNew /\ Locals
        /\ \A x \in Devs : HasNumber(x)
    BY ThreadsAssumption DEF CoreInv, Threads, RefInv, TableNumbers
  <1>2. /\ pc[a] = "put" /\ d \in Devs /\ c \in Held(a) /\ c \in Slots
        /\ capi_devs_table[c] = d /\ id[d] = c
        /\ refcount[d] = 1 =>
             /\ pc[d] = "none"
             /\ \A b \in Appls : b # a => \A i \in Held(b) : capi_devs_table[i] # d
    BY <1>1, LastRelease, HeldSlots DEF capi_release_put, Goto
  <1>3. /\ pc'[a] = "loop" /\ at'[a] = NoDev /\ cursor'[a] = c + 1
        /\ \A t \in Threads : t # a => pc'[t] = pc[t]
        /\ \A b \in Appls : b # a => cursor'[b] = cursor[b] /\ at'[b] = at[b]
        /\ refcount'[d] = refcount[d] - 1
        /\ \A x \in Devs : x # d => refcount'[x] = refcount[x]
        /\ \A i \in Slots : capi_devs_table'[i] =
             IF refcount[d] = 1 /\ i = c THEN NoDev ELSE capi_devs_table[i]
        /\ UNCHANGED <<capi_devs_list, id, capi_appls_list, devs, walked>>
    BY <1>1, <1>2 DEF capi_release_put, capi_device_put, Goto, TypeOK, appl
  <1> HIDE DEF d, c
  <1>4. \A x \in Devs : pc'[x] = pc[x]
    BY <1>1, <1>3 DEF Threads
  <1>5. \A b \in Appls : Held(b) \subseteq Slots
    BY <1>1, HeldSlots
  <1>6. /\ \A b \in Appls : b # a => Held(b)' = Held(b)
        /\ Held(a)' = {i \in Held(a) : i > c}
    <2>1. c \in Nat /\ \A i \in devs[a] : i \in Nat
      BY <1>1, <1>2, SizesAssumption DEF Slots, TypeOK
    <2> QED
      BY <1>3, <2>1 DEF Held, c
  <1>7. Held(a)' = Held(a) \ {c}
    <2>1. \A i \in Held(a) : i \in Nat /\ i >= c
      BY <1>1, HeldSlots, SizesAssumption DEF c, Slots
    <2>2. c \in Nat
      BY <1>2, <2>1
    <2> QED
      BY <1>6, <2>1, <2>2
  <1>8. \A b \in Appls : \A i \in Held(b)' : i \in Held(b) /\ capi_devs_table'[i] = capi_devs_table[i]
    BY <1>2, <1>3, <1>5, <1>6, <1>7
  <1>9. RefcountExact'
    <2> SUFFICES ASSUME NEW x \in Devs
                 PROVE  refcount'[x] = DriverRefs(x)' + Cardinality(Holders(x)')
                                         - Cardinality(Unpaid(x)')
      BY DEF RefcountExact
    <2>0. DriverRefs(x)' = DriverRefs(x) /\ DriverRefs(x) \in Int
      BY <1>4 DEF DriverRefs
    <2>1. Unpaid(x)' = Unpaid(x)
      BY <1>1, <1>2, <1>3 DEF Unpaid
    <2>2. \A b \in Appls : b # a => (b \in Holders(x)' <=> b \in Holders(x))
      BY <1>6, <1>8 DEF Holders
    <2>3. CASE x # d
      <3>1. a \in Holders(x)' <=> a \in Holders(x)
        BY <1>2, <1>7, <1>8, <2>3 DEF Holders
      <3>2. Holders(x)' = Holders(x)
        BY <2>2, <3>1 DEF Holders
      <3> QED
        BY <1>1, <1>3, <2>0, <2>1, <2>3, <3>2 DEF RefcountExact
    <2>4. CASE x = d
      <3>1. \A i \in Held(a) : capi_devs_table[i] = d => i = c
        BY <1>1, <1>2, <1>5, ThreadsAssumption DEF UniqueNumbers
      <3>2. a \notin Holders(x)' /\ a \in Holders(x)
        BY <1>2, <1>7, <1>8, <2>4, <3>1 DEF Holders
      <3>3. Holders(x)' = Holders(x) \ {a}
        BY <2>2, <3>2 DEF Holders
      <3>4. Cardinality(Holders(x)') = Cardinality(Holders(x)) - 1
        BY <3>2, <3>3, Finite, FS_RemoveElement
      <3> QED
        BY <1>1, <1>3, <2>0, <2>1, <2>4, <3>4, Finite DEF RefcountExact
    <2> QED
      BY <2>3, <2>4
  <1>10. ApplPlaces'
    <2> SUFFICES ASSUME NEW b \in Appls PROVE Placed(b)'
      BY DEF ApplPlaces
    <2>1. CASE b = a
      BY <1>1, <1>2, <1>3, <1>7, <2>1 DEF ApplPlaces, Placed, InList, OutsideList, Releasing
    <2>2. CASE b # a
      BY <1>1, <1>3, <1>6, <2>2 DEF ApplPlaces, Placed, Threads
    <2> QED
      BY <2>1, <2>2
  <1>11. TableNumbers'
    <2>1. UniqueNumbers'
      <3> SUFFICES ASSUME NEW i \in Slots, capi_devs_table'[i] # NoDev
                   PROVE  refcount'[capi_devs_table'[i]] > 0 /\ id[capi_devs_table'[i]] = i
        BY <1>3 DEF UniqueNumbers
      <3> DEFINE x == capi_devs_table[i]
      <3>1. capi_devs_table'[i] = x /\ x \in Devs /\ refcount[x] > 0 /\ id[x] = i
        BY <1>1, <1>3 DEF UniqueNumbers, TypeOK
      <3>2. ~(x = d /\ refcount[d] = 1)
        BY <1>2, <1>3, <3>1
      <3>3. refcount[x] \in Int
        BY <1>1, <3>1 DEF TypeOK
      <3> QED
        BY <1>3, <3>1, <3>2, <3>3
    <2>2. ASSUME NEW x \in Devs PROVE HasNumber(x)'
      <3>1. ~(refcount[d] = 1 /\ x = d /\ pc[x] # "none")
        BY <1>2
      <3>2. \A i \in Slots : capi_devs_table[i] = x /\ pc[x] # "none" => capi_devs_table'[i] = x
        BY <1>2, <1>3, <3>1
      <3>3. pc[x] \in Numbered => id[x] \in Slots
        BY <1>1 DEF ListWalks, Numbered
      <3>4. id[x] = 0 \/ id[x] \in Slots
        BY <1>1, SizesAssumption DEF TypeOK, Slots
      <3> QED
        BY <1>1, <1>3, <1>4, <3>2, <3>3, <3>4 DEF HasNumber, Numbered, Operating
    <2> QED
      BY <2>1, <2>2 DEF TableNumbers
  <1>12. HeldBits'
    BY <1>1, <1>8 DEF HeldBits
  <1>13. WalksNew'
    <2>1. ASSUME NEW x \in Devs PROVE DriverWalk(x)'
      BY <1>1, <1>3, <1>4, <1>8 DEF WalksNew, DriverWalk
    <2>2. ASSUME NEW b \in Appls PROVE ApplWalk(b)'
      <3>1. CASE b = a
        BY <1>3, <3>1 DEF ApplWalk, Walking
      <3>2. CASE b # a
        <4>1. /\ pc'[b] = pc[b] /\ walked'[b] = walked[b] /\ at'[b] = at[b]
              /\ \A i \in Held(b)' : i \in Held(b) /\ capi_devs_table'[i] = capi_devs_table[i]
          BY <1>3, <1>8, <3>2 DEF Threads
        <4> QED
          BY <1>1, <4>1 DEF WalksNew, ApplWalk
      <3> QED
        BY <3>1, <3>2
    <2> QED
      BY <2>1, <2>2 DEF WalksNew
  <1>14. Locals'
    <2> SUFFICES ASSUME NEW b \in Appls PROVE Local(b)'
      BY DEF Locals
    <2>1. CASE b = a
      BY <1>3, <2>1 DEF Local
    <2>2. CASE b # a
      <3>1. pc[b] \in {"in_release", "put"} => cursor[b] \in Held(b)
        <4>1. cursor[b] >= cursor[b]
          BY <1>1, SizesAssumption DEF TypeOK
        <4> QED
          BY <1>1, <4>1, HeldSlots DEF Locals, Local
      <3>2. pc[b] = "trylock" => Held(b) = devs[b]
        BY <1>1, HeldSlots DEF ApplPlaces, Placed, InList, Releasing
      <3>3. /\ pc'[b] = pc[b] /\ at'[b] = at[b] /\ cursor'[b] = cursor[b] /\ devs'[b] = devs[b]
            /\ \A i \in Held(b) : capi_devs_table'[i] = capi_devs_table[i]
        BY <1>3, <1>6, <1>8, <2>2 DEF Threads
      <3> QED
        BY <1>1, <1>3, <3>1, <3>2, <3>3 DEF Locals, Local
    <2> QED
      BY <2>1, <2>2
  <1> QED
    BY <1>9, <1>10, <1>11, <1>12, <1>13, <1>14 DEF RefInv

(* The other steps of an application change no reference. *)
LEMMA ApplKeepsRefs ==
  ASSUME CoreInv, RefInv, NEW a \in Appls, ApplGoesOn(a) \/ ApplBegins(a)
  PROVE  RefInv'
  <1>0. TypeOK /\ ListWalks /\ a \in Threads /\ \A x \in Devs : a # x
    BY ThreadsAssumption DEF CoreInv, Threads
  <1>p. /\ Placed(a) /\ ApplWalk(a) /\ Local(a)
        /\ \A i \in Held(a) : i \in Slots /\ i \in devs[a] /\ capi_devs_table[i] # NoDev
    BY <1>0, HeldSlots DEF RefInv, ApplPlaces, WalksNew, Locals, HeldBits
  <1>a. ASSUME NEW q \in ApplPC, pc' = [pc EXCEPT ![a] = q], pc[a] # "get", q # "get",
               UNCHANGED <<capi_devs_table, id, refcount, capi_devs_list>>,
               Held(a)' = Held(a),
               \A b \in Appls : b # a =>
                 /\ b \in capi_appls_list' <=> b \in capi_appls_list
                 /\ devs'[b] = devs[b] /\ cursor'[b] = cursor[b] /\ at'[b] = at[b],
               \A t \in Threads : t # a => walked'[t] = walked[t],
               Placed(a)', ApplWalk(a)', Local(a)'
        PROVE  RefInv'
    <2>1. Quiet(a, q)
      BY <1>0, <1>a DEF Quiet, SameBits, SamePlaces, Held, TypeOK, Threads
    <2>2. ApplMoves(a, q)
      BY <1>0, <1>a, <2>1 DEF ApplMoves, Threads
    <2> QED
      BY <2>2, ApplMovesKeep
  <1>1. ASSUME bind_capi_appl(a) PROVE RefInv'
    <2>0. /\ pc[a] = "bind" /\ a \notin capi_appls_list /\ Held(a) = {} /\ cursor[a] = 1
          /\ at[a] = NoDev /\ UNCHANGED <<capi_devs_table, id, refcount, capi_devs_list,
                                          devs, cursor, at, walked>>
      BY <1>p, <1>1 DEF bind_capi_appl, Goto, Placed, Local, OutsideList, appl, locals
    <2>1. Held(a)' = Held(a)
      BY <2>0 DEF Held
    <2>2. CASE Goto(a, "bind", "walk") /\ capi_appls_list' = capi_appls_list \cup {a}
      <3>1. pc'[a] = "walk"
        BY <1>0, <2>2 DEF Goto, TypeOK
      <3>2. Placed(a)' /\ ApplWalk(a)' /\ Local(a)'
        BY <2>0, <2>1, <2>2, <3>1 DEF Placed, ApplWalk, Local, OutsideList
      <3> QED
        BY <1>a, <2>0, <2>1, <2>2, <3>2 DEF Goto, ApplPC
    <2>3. CASE Goto(a, "bind", "unregistered") /\ UNCHANGED capi_appls_list
      <3>1. pc'[a] = "unregistered"
        BY <1>0, <2>3 DEF Goto, TypeOK
      <3>2. Placed(a)' /\ ApplWalk(a)' /\ Local(a)'
        BY <2>0, <2>1, <2>3, <3>1 DEF Placed, ApplWalk, Local, InList, Walking
      <3> QED
        BY <1>a, <2>0, <2>1, <2>3, <3>2 DEF Goto, ApplPC
    <2> QED
      BY <1>1, <2>2, <2>3 DEF bind_capi_appl
  <1>2. ASSUME register_next_device(a) PROVE RefInv'
    <2>0. PICK d \in capi_devs_list \ walked[a] :
            walked' = [walked EXCEPT ![a] = @ \cup {d}] /\ at' = [at EXCEPT ![a] = d]
      BY <1>2 DEF register_next_device
    <2>1. /\ pc[a] = "walk" /\ pc'[a] = "in_register" /\ at'[a] = d
          /\ walked'[a] = walked[a] \cup {d}
          /\ \A t \in Threads : t # a => walked'[t] = walked[t]
          /\ \A b \in Appls : b # a => at'[b] = at[b]
          /\ UNCHANGED <<capi_devs_table, id, refcount, capi_devs_list, capi_appls_list,
                         devs, cursor>>
      BY <1>0, <1>2, <2>0 DEF register_next_device, Goto, TypeOK, registry, appl
    <2>2. Held(a)' = Held(a)
      BY <2>1 DEF Held
    <2>3. Placed(a)' /\ Local(a)'
      BY <1>p, <2>1, <2>2 DEF Placed, Local, InList, OutsideList, Releasing
    <2>4. ApplWalk(a)'
      BY <1>p, <2>0, <2>1, <2>2 DEF ApplWalk, Walking
    <2> QED
      BY <1>a, <1>2, <2>1, <2>2, <2>3, <2>4 DEF register_next_device, Goto, ApplPC
  <1>3. ASSUME register_next_device_return(a) PROVE RefInv'
    <2>1. CASE Goto(a, "in_register", "get")
               /\ devs' = [devs EXCEPT ![a] = @ \cup {id[at[a]]}]
      <3>1. ApplAccepts(a)
        BY <1>3, <2>1 DEF register_next_device_return, ApplAccepts, Goto
      <3> QED
        BY <3>1, ApplAcceptKeeps
    <2>2. CASE Goto(a, "in_register", "walk") /\ UNCHANGED devs
      <3>1. /\ pc[a] = "in_register" /\ pc'[a] = "walk"
            /\ UNCHANGED <<capi_devs_table, id, refcount, capi_devs_list, capi_appls_list,
                           devs, cursor, at, walked>>
        BY <1>0, <1>3, <2>2 DEF register_next_device_return, Goto, TypeOK, registry, locals
      <3>2. Held(a)' = Held(a) /\ at[a] \in capi_devs_list
        BY <1>0, <3>1 DEF Held, ListWalks
      <3>3. Placed(a)' /\ ApplWalk(a)' /\ Local(a)'
        BY <1>p, <3>1, <3>2 DEF Placed, ApplWalk, Local, InList, OutsideList, Releasing, Walking
      <3> QED
        BY <1>a, <2>2, <3>1, <3>2, <3>3 DEF Goto, ApplPC
    <2> QED
      BY <1>3, <2>1, <2>2 DEF register_next_device_return
  <1>4. ASSUME register_next_device_get(a) PROVE RefInv'
    BY <1>4, ApplGetKeeps
  (* Steps outside a walk and outside capi_release: only the place and the *)
  (* local variable dev of the application change.                         *)
  <1>b. ASSUME NEW q \in ApplPC, pc' = [pc EXCEPT ![a] = q],
               pc[a] \in InList \cup {"in_query", "unregistered"}, pc[a] # "get",
               pc[a] \notin Releasing,
               q \in {"idle", "trylock", "in_put", "release", "in_query", "unregistered"},
               q = "unregistered" <=> a \notin capi_appls_list /\ q # "in_query",
               UNCHANGED <<capi_devs_table, id, refcount, capi_devs_list, capi_appls_list,
                           devs, cursor>>,
               \A b \in Appls : b # a => at'[b] = at[b],
               \A t \in Threads : t # a => walked'[t] = walked[t],
               q \in {"idle", "release", "unregistered"} => at'[a] = NoDev,
               q = "trylock" => \E i \in devs[a] : capi_devs_table[i] = at'[a]
        PROVE  RefInv'
    <2>1. Held(a)' = Held(a)
      BY <1>b DEF Held
    <2>2. pc'[a] = q
      BY <1>0, <1>b DEF TypeOK
    <2>3. Placed(a)'
      BY <1>p, <1>b, <2>1, <2>2 DEF Placed, InList, OutsideList, Releasing
    <2>4. ApplWalk(a)' /\ Local(a)'
      BY <1>b, <2>2 DEF ApplWalk, Walking, Local, OutsideList
    <2> QED
      BY <1>a, <1>b, <2>1, <2>3, <2>4
  <1>5. ASSUME bind_capi_appl_done(a) PROVE RefInv'
    <2>1. /\ at'[a] = NoDev /\ \A b \in Appls : b # a => at'[b] = at[b]
          /\ \A t \in Threads : t # a => walked'[t] = walked[t]
      BY <1>0, <1>5 DEF bind_capi_appl_done, TypeOK
    <2>2. a \in capi_appls_list
      BY <1>p, <1>5 DEF bind_capi_appl_done, Goto, Placed, InList
    <2> QED
      BY <1>b, <1>5, <2>1, <2>2
      DEF bind_capi_appl_done, Goto, registry, appl, ApplPC, InList, Releasing
  <1>6. ASSUME capi_put_message_trylock(a) PROVE RefInv'
    <2>1. pc[a] = "trylock" /\ a \in capi_appls_list
      BY <1>p, <1>6 DEF capi_put_message_trylock, Goto, Placed, InList
    <2>2. CASE Goto(a, "trylock", "in_put") /\ UNCHANGED at
      BY <1>b, <1>6, <2>1, <2>2
      DEF capi_put_message_trylock, Goto, registry, appl, ApplPC, InList, Releasing
    <2>3. CASE Goto(a, "trylock", "idle") /\ at' = [at EXCEPT ![a] = NoDev]
      <3>1. at'[a] = NoDev /\ \A b \in Appls : b # a => at'[b] = at[b]
        BY <1>0, <2>3 DEF TypeOK
      <3> QED
        BY <1>b, <1>6, <2>1, <2>3, <3>1
        DEF capi_put_message_trylock, Goto, registry, appl, ApplPC, InList, Releasing
    <2> QED
      BY <1>6, <2>2, <2>3 DEF capi_put_message_trylock
  <1>7. ASSUME capi_put_message_return(a) PROVE RefInv'
    <2>1. a \in capi_appls_list /\ at'[a] = NoDev /\ \A b \in Appls : b # a => at'[b] = at[b]
      BY <1>0, <1>p, <1>7 DEF capi_put_message_return, Goto, Placed, InList, TypeOK
    <2> QED
      BY <1>b, <1>7, <2>1
      DEF capi_put_message_return, Goto, registry, appl, ApplPC, InList, Releasing
  <1>8. ASSUME capi_get_profile(a) PROVE RefInv'
    <2>1. at'[a] = NoDev /\ \A b \in Appls : b # a => at'[b] = at[b]
      BY <1>0, <1>8 DEF capi_get_profile, TypeOK
    <2>2. CASE a \in capi_appls_list /\ Goto(a, "in_query", "idle")
      BY <1>b, <1>8, <2>1, <2>2
      DEF capi_get_profile, Goto, registry, appl, ApplPC, InList, Releasing
    <2>3. CASE a \notin capi_appls_list /\ Goto(a, "in_query", "unregistered")
      BY <1>b, <1>8, <2>1, <2>3
      DEF capi_get_profile, Goto, registry, appl, ApplPC, InList, Releasing
    <2> QED
      BY <1>8, <2>2, <2>3 DEF capi_get_profile
  <1>9. ASSUME capi_put_message(a) PROVE RefInv'
    <2>1. PICK i \in devs[a] : at' = [at EXCEPT ![a] = capi_devs_table[i]]
      BY <1>9 DEF capi_put_message
    <2>2. /\ a \in capi_appls_list /\ at'[a] = capi_devs_table[i]
          /\ \A b \in Appls : b # a => at'[b] = at[b]
      BY <1>0, <1>p, <1>9, <2>1 DEF capi_put_message, Goto, Placed, InList, TypeOK
    <2> QED
      BY <1>b, <1>9, <2>2
      DEF capi_put_message, Goto, registry, appl, ApplPC, InList, Releasing
  <1>10. ASSUME capi_get_message(a) PROVE RefInv'
    <2>1. a \in capi_appls_list /\ at[a] = NoDev
      BY <1>p, <1>10 DEF capi_get_message, Goto, Placed, InList, Local
    <2> QED
      BY <1>b, <1>10, <2>1
      DEF capi_get_message, Goto, registry, locals, ApplPC, InList, Releasing
  <1>11. ASSUME try_get_capi_device_by_id(a) PROVE RefInv'
    <2>1. PICK i \in Slots : at' = [at EXCEPT ![a] = capi_devs_table[i]]
      BY <1>11 DEF try_get_capi_device_by_id
    <2>2. \A b \in Appls : b # a => at'[b] = at[b]
      BY <1>0, <2>1 DEF TypeOK
    <2> QED
      BY <1>b, <1>11, <2>2
      DEF try_get_capi_device_by_id, Goto, registry, appl, ApplPC, InList, Releasing
  <1>12. ASSUME capi_release(a) PROVE RefInv'
    <2>1. a \in capi_appls_list /\ at[a] = NoDev
      BY <1>p, <1>12 DEF capi_release, Goto, Placed, InList, Local
    <2> QED
      BY <1>b, <1>12, <2>1
      DEF capi_release, Goto, registry, appl, locals, ApplPC, InList, Releasing
  <1>13. ASSUME capi_register(a) PROVE RefInv'
    <2>1. /\ pc[a] = "unregistered" /\ pc'[a] = "bind" /\ at[a] = NoDev
          /\ a \notin capi_appls_list /\ Held(a) = {}
          /\ devs'[a] = {} /\ cursor'[a] = 1
          /\ \A b \in Appls : b # a => devs'[b] = devs[b] /\ cursor'[b] = cursor[b]
          /\ UNCHANGED <<capi_devs_table, id, refcount, capi_devs_list, capi_appls_list,
                         walked, at>>
      BY <1>0, <1>p, <1>13
      DEF capi_register, Goto, TypeOK, Placed, Local, OutsideList, registry
    <2>2. Held(a)' = Held(a)
      BY <2>1 DEF Held
    <2>3. Placed(a)' /\ ApplWalk(a)' /\ Local(a)'
      BY <2>1, <2>2 DEF Placed, ApplWalk, Local, InList, Walking
    <2> QED
      BY <1>a, <1>13, <2>1, <2>2, <2>3 DEF capi_register, Goto, ApplPC
  <1>14. ASSUME capi_release_lock(a) PROVE RefInv'
    <2>1. /\ pc[a] = "release" /\ pc'[a] = "loop" /\ at[a] = NoDev /\ a \in capi_appls_list
          /\ UNCHANGED <<capi_devs_table, id, refcount, capi_devs_list, capi_appls_list,
                         devs, cursor, walked, at>>
      BY <1>0, <1>p, <1>14
      DEF capi_release_lock, Goto, TypeOK, Placed, Local, InList, registry, appl, locals
    <2>2. Held(a)' = Held(a)
      BY <2>1 DEF Held
    <2>3. Placed(a)' /\ ApplWalk(a)' /\ Local(a)'
      BY <2>1, <2>2 DEF Placed, ApplWalk, Local, OutsideList, Walking, Releasing
    <2> QED
      BY <1>a, <1>14, <2>1, <2>2, <2>3 DEF capi_release_lock, Goto, ApplPC
  <1>15. ASSUME capi_release_next(a) PROVE RefInv'
    <2>1. PICK i \in Slots :
            /\ i \in Held(a) /\ \A j \in Held(a) : i <= j
            /\ cursor' = [cursor EXCEPT ![a] = i]
            /\ at' = [at EXCEPT ![a] = capi_devs_table[i]]
            /\ Goto(a, "loop", "in_release") \/ Goto(a, "loop", "put")
            /\ UNCHANGED <<registry, sems, appl, driver, walked>>
      BY <1>0, <1>15, ReleaseNext
    <2>2. PICK q \in {"in_release", "put"} : Goto(a, "loop", q)
      BY <2>1
    <2>3. /\ pc[a] = "loop" /\ pc'[a] = q /\ a \in capi_appls_list
          /\ cursor'[a] = i /\ at'[a] = capi_devs_table[i]
          /\ \A b \in Appls : b # a => at'[b] = at[b] /\ cursor'[b] = cursor[b]
          /\ UNCHANGED <<capi_devs_table, id, refcount, capi_devs_list, capi_appls_list,
                         devs, walked>>
      BY <1>0, <1>p, <2>1, <2>2 DEF Goto, TypeOK, Placed, InList, registry, appl
    <2>4. Held(a)' = Held(a)
      <3>1. cursor[a] \in Nat /\ i \in Nat /\ devs[a] \subseteq Nat /\ i >= cursor[a]
        BY <1>0, <2>1, SizesAssumption DEF TypeOK, Slots, Held
      <3>2. \A j \in devs[a] : j >= i <=> j >= cursor[a]
        BY <2>1, <3>1 DEF Held
      <3> QED
        BY <2>3, <3>2 DEF Held
    <2>5. Placed(a)' /\ ApplWalk(a)' /\ Local(a)'
      BY <1>p, <2>1, <2>3, <2>4 DEF Placed, ApplWalk, Local, OutsideList, Walking, Releasing
    <2> QED
      BY <1>a, <2>2, <2>3, <2>4, <2>5 DEF Goto, ApplPC
  <1>16. ASSUME driver_release(a) \/ driver_release_return(a) PROVE RefInv'
    <2>1. PICK q \in {"in_release", "put"} : Goto(a, "in_release", q)
      BY <1>16 DEF driver_release, driver_release_return
    <2>2. /\ pc[a] = "in_release" /\ pc'[a] = q /\ a \in capi_appls_list
          /\ UNCHANGED <<capi_devs_table, id, refcount, capi_devs_list, capi_appls_list,
                         devs, cursor, walked, at>>
      BY <1>0, <1>p, <1>16, <2>1
      DEF driver_release, driver_release_return, Goto, TypeOK, Placed, InList, registry,
          appl, locals
    <2>3. Held(a)' = Held(a)
      BY <2>2 DEF Held
    <2>4. Placed(a)' /\ ApplWalk(a)' /\ Local(a)'
      BY <1>p, <2>2, <2>3 DEF Placed, ApplWalk, Local, OutsideList, Walking, Releasing
    <2> QED
      BY <1>a, <2>1, <2>2, <2>3, <2>4 DEF Goto, ApplPC
  <1>17. ASSUME capi_release_put(a) PROVE RefInv'
    BY <1>17, ApplPutKeeps
  <1>18. ASSUME capi_release_done(a) PROVE RefInv'
    <2>1. /\ pc[a] = "loop" /\ pc'[a] = "unregistered" /\ at[a] = NoDev /\ Held(a) = {}
          /\ cursor'[a] = MaxDevs + 1 /\ a \notin capi_appls_list'
          /\ \A b \in Appls : b # a =>
               /\ cursor'[b] = cursor[b]
               /\ b \in capi_appls_list' <=> b \in capi_appls_list
          /\ UNCHANGED <<capi_devs_table, id, refcount, capi_devs_list, devs, walked, at>>
      BY <1>0, <1>p, <1>18 DEF capi_release_done, Goto, TypeOK, Local
    <2>2. Held(a)' = Held(a)
      BY <1>0, <2>1, SizesAssumption DEF Held, TypeOK, Slots
    <2>3. Placed(a)' /\ ApplWalk(a)' /\ Local(a)'
      BY <2>1, <2>2 DEF Placed, ApplWalk, Local, InList, Walking
    <2> QED
      BY <1>a, <1>18, <2>1, <2>2, <2>3 DEF capi_release_done, Goto, ApplPC
  <1> QED
    BY <1>1, <1>2, <1>3, <1>4, <1>5, <1>6, <1>7, <1>8, <1>9, <1>10, <1>11, <1>12, <1>13,
       <1>14, <1>15, <1>16, <1>17, <1>18
    DEF ApplGoesOn, ApplBegins

-------------------------------------------------------------------------------
(* The theorems *)

LEMMA RefInit == Init => RefInv
  <1> SUFFICES ASSUME Init PROVE RefInv
    OBVIOUS
  <1>1. /\ \A a \in Appls : pc[a] = "unregistered" /\ Held(a) = {} /\ at[a] = NoDev
        /\ \A d \in Devs : pc[d] = "none" /\ id[d] = 0 /\ refcount[d] = 0
        /\ \A i \in Slots : capi_devs_table[i] = NoDev
        /\ capi_appls_list = {}
    BY ThreadsAssumption DEF Init, Threads, Held
  <1>2. ApplPlaces
    BY <1>1 DEF ApplPlaces, Placed, InList
  <1>3. TableNumbers
    BY <1>1 DEF TableNumbers, UniqueNumbers, HasNumber, Numbered, Operating
  <1>4. HeldBits /\ WalksNew /\ Locals
    BY <1>1 DEF HeldBits, WalksNew, DriverWalk, ApplWalk, Walking, Locals, Local
  <1>5. RefcountExact
    <2> SUFFICES ASSUME NEW d \in Devs
                 PROVE  refcount[d] = DriverRefs(d) + Cardinality(Holders(d))
                                        - Cardinality(Unpaid(d))
      BY DEF RefcountExact
    <2>1. Holders(d) = {}
      BY <1>1 DEF Holders
    <2>2. Unpaid(d) = {}
      BY <1>1 DEF Unpaid, Threads
    <2> QED
      BY <1>1, <2>1, <2>2, FS_EmptySet DEF DriverRefs
  <1> QED
    BY <1>2, <1>3, <1>4, <1>5 DEF RefInv

LEMMA RefNext == CoreInv /\ RefInv /\ [Next]_vars => RefInv'
  <1> SUFFICES ASSUME CoreInv, RefInv, [Next]_vars PROVE RefInv'
    OBVIOUS
  <1>1. ASSUME NEW d \in Devs, DriverGoesOn(d) \/ DriverBegins(d) PROVE RefInv'
    BY <1>1, DriverKeepsRefs
  <1>2. ASSUME NEW a \in Appls, ApplGoesOn(a) \/ ApplBegins(a) PROVE RefInv'
    BY <1>2, ApplKeepsRefs
  <1>3. CASE UNCHANGED <<capi_devs_table, capi_devs_list, id, refcount, capi_appls_list,
                         devs, cursor, at, walked, pc>>
    BY <1>3
    DEF RefInv, ApplPlaces, Placed, Held, TableNumbers, UniqueNumbers, HasNumber, HeldBits,
        WalksNew, DriverWalk, ApplWalk, Locals, Local, RefcountExact, DriverRefs, Holders,
        Unpaid
  <1>4. ASSUME NEW d \in Devs, NEW a \in Appls, enter_appl(d, a) \/ capi_appl_call(d, a)
        PROVE  RefInv'
    BY <1>3, <1>4 DEF enter_appl, capi_appl_call, capi_appl_enqueue_message,
                      capi_appl_signal, capi_appl_signal_error, leave_appl, registry,
                      appl, locals
  <1>5. CASE UNCHANGED vars
    BY <1>3, <1>5 DEF vars, registry, appl, locals
  <1> QED
    BY <1>1, <1>2, <1>4, <1>5 DEF Next

(* Reference counting is exact: the counter of a device is the driver's    *)
(* reference plus one for every application that still owns the device's   *)
(* bit, minus those that register_capi_appl has yet to take.               *)
THEOREM ReferencesCounted == Spec => []RefcountExact
  <1>1. Init => CoreInv /\ RefInv
    BY CoreInit, RefInit
  <1>2. CoreInv /\ RefInv /\ [Next]_vars => (CoreInv /\ RefInv)'
    BY CoreNext, RefNext
  <1>3. RefInv => RefcountExact
    BY DEF RefInv
  <1> QED
    BY <1>1, <1>2, <1>3, PTL DEF Spec

(* Device numbers are unique, and a number in the table is that of an      *)
(* allocated device: add_capi_device and free_capi_device agree.           *)
THEOREM NumbersUniqueAlways == Spec => []UniqueNumbers
  <1>1. Init => CoreInv /\ RefInv
    BY CoreInit, RefInit
  <1>2. CoreInv /\ RefInv /\ [Next]_vars => (CoreInv /\ RefInv)'
    BY CoreNext, RefNext
  <1>3. RefInv => UniqueNumbers
    BY DEF RefInv, TableNumbers
  <1> QED
    BY <1>1, <1>2, <1>3, PTL DEF Spec

(* The BUG_ON(!dev) of capi_release and capi_put_message never fires.      *)
THEOREM BitsNeverDangle == Spec => []BitsLeadToDevices
  <1>1. Init => CoreInv /\ RefInv
    BY CoreInit, RefInit
  <1>2. CoreInv /\ RefInv /\ [Next]_vars => (CoreInv /\ RefInv)'
    BY CoreNext, RefNext
  <1>3. RefInv => BitsLeadToDevices
    BY DEF RefInv, HeldBits, BitsLeadToDevices
  <1> QED
    BY <1>1, <1>2, <1>3, PTL DEF Spec

(* A device whose semaphore an application holds still has its driver.     *)
LEMMA ReadersKeepDevice ==
  ASSUME CoreInv, DevLocking, RefInv, NEW d \in Devs, NEW a \in Appls, a \in dev_sem[d]
  PROVE  refcount[d] > 0
  <1>1. dev_sem[d] # {d} /\ dev_sem[d] # {}
    BY ThreadsAssumption
  <1>2. pc[d] # "none"
    BY <1>1 DEF DevLocking, PutIsQuiet, OutOfReach
  <1> QED
    BY <1>2, Positive DEF CoreInv

(* No thread of the capicore uses a freed device: whatever its local       *)
(* variable dev points to, and every semaphore an application reads,       *)
(* belongs to a device with a reference.                                   *)
THEOREM DevicesAlive == Spec => []NoUseAfterFree
  <1>1. Init => CoreInv /\ DevLocking /\ RefInv
    BY CoreInit, DevLockingInit, RefInit
  <1>2. CoreInv /\ DevLocking /\ RefInv /\ [Next]_vars => (CoreInv /\ DevLocking /\ RefInv)'
    BY CoreNext, DevLockingNext, RefNext
  <1>3. CoreInv /\ DevLocking /\ RefInv => NoUseAfterFree
    <2> SUFFICES ASSUME CoreInv, DevLocking, RefInv PROVE NoUseAfterFree
      OBVIOUS
    <2>0. TypeOK /\ ListWalks
      BY DEF CoreInv
    <2>1. ASSUME NEW a \in Appls, at[a] # NoDev PROVE refcount[at[a]] > 0
      <3>1. at[a] \in Devs /\ pc[a] \in ApplPC
        BY <2>0, <2>1 DEF TypeOK
      <3>2. CASE at[a] \in capi_devs_list
        BY <2>0, <3>1, <3>2, Positive DEF ListWalks
      <3>3. CASE pc[a] \in {"in_put", "in_query"}
        BY <3>1, <3>3, ReadersKeepDevice DEF DevLocking, InOpHolds
      <3>4. CASE \E i \in devs[a] : capi_devs_table[i] = at[a]
        <4>1. \A i \in devs[a] : i \in Slots
          BY <2>0 DEF TypeOK
        <4> QED
          BY <2>1, <3>4, <4>1 DEF RefInv, TableNumbers, UniqueNumbers
      <3>5. \/ at[a] \in capi_devs_list \/ pc[a] \in {"in_put", "in_query"}
            \/ \E i \in devs[a] : capi_devs_table[i] = at[a]
        BY <2>0, <2>1, <3>1
        DEF RefInv, Locals, Local, OutsideList, ListWalks, ApplPC
      <3> QED
        BY <3>2, <3>3, <3>4, <3>5
    <2>2. \A d \in Devs, a \in Appls : a \in dev_sem[d] => refcount[d] > 0
      BY ReadersKeepDevice
    <2> QED
      BY <2>1, <2>2 DEF NoUseAfterFree
  <1> QED
    BY <1>1, <1>2, <1>3, PTL DEF Spec
-------------------------------------------------------------------------------
(* Devices and applications that register at the same time meet.           *)

Settled == {"idle", "trylock", "in_put", "in_query", "release"}

(* Places in which a driver's bits and its known applications agree. *)
Connected == {"walk", "get", "open", "sysfs", "registered", "unlist", "fail_unlist"}

(* Whom a device was asked about: nobody before its walk, during the walk  *)
(* those it has passed, at the end of the walk every application, and      *)
(* never an application that is not registered.                            *)
Asked(d) ==
  /\ pc[d] \in {"none", "allocated", "bind"} => offered[d] = {} /\ known[d] = {}
  /\ pc[d] \in {"walk", "get"} => offered[d] = walked[d]
  /\ pc[d] \notin {"walk", "get"} => walked[d] = {}
  /\ pc[d] = "open" => capi_appls_list \subseteq offered[d]
  /\ offered[d] \subseteq capi_appls_list

(* Which listed devices were asked about an application: during its walk   *)
(* those it has passed, from then to its release all.                      *)
Asks(a) ==
  /\ pc[a] \notin Walking => walked[a] = {}
  /\ pc[a] \in Walking => \A d \in capi_devs_list : a \in offered[d] <=> d \in walked[a]
  /\ a \in capi_appls_list /\ pc[a] \in Settled =>
       \A d \in capi_devs_list : a \in offered[d]

(* The application has the bit of the devices that accepted it, except in  *)
(* capi_release, which tells the driver before it passes the bit.          *)
Agree(d, a) ==
  pc[d] \in Connected =>
    /\ pc[a] = "put" /\ at[a] = d => a \notin known[d]
    /\ pc[a] \notin {"in_release", "put"} \/ at[a] # d =>
         (a \in known[d] <=> id[d] \in Held(a))

AllAsked == (\A d \in Devs : Asked(d)) /\ (\A a \in Appls : Asks(a))
AllAgree == \A d \in Devs, a \in Appls : Agree(d, a)
MeetInv == AllAsked /\ AllAgree

-------------------------------------------------------------------------------
(* Driver steps *)

(* What a driver step may do to the walks of the others. *)
DriverAsks(d, q) ==
  /\ q \in DevPC /\ pc' = [pc EXCEPT ![d] = q]
  /\ capi_appls_list' = capi_appls_list
  /\ \A x \in Devs : x # d =>
       offered'[x] = offered[x] /\ known'[x] = known[x] /\ walked'[x] = walked[x]
  /\ \A a \in Appls : walked'[a] = walked[a]
  /\ \/ capi_devs_list' \subseteq capi_devs_list
        /\ (d \in capi_devs_list' => offered'[d] = offered[d])
     \/ /\ capi_devs_list' = capi_devs_list \cup {d}
        /\ capi_appls_list \subseteq offered'[d]
        /\ \A a \in Appls : pc[a] \notin Walking
  /\ Asked(d)'

LEMMA DriverAsksKeeps ==
  ASSUME TypeOK, AllAsked, NEW d \in Devs, NEW q, DriverAsks(d, q)
  PROVE  AllAsked'
  <1>1. /\ \A a \in Appls : pc'[a] = pc[a] /\ walked'[a] = walked[a]
        /\ \A x \in Devs : x # d => pc'[x] = pc[x] /\ walked'[x] = walked[x]
        /\ \A x \in Devs : x # d => offered'[x] = offered[x] /\ known'[x] = known[x]
        /\ capi_appls_list' = capi_appls_list
    BY ThreadsAssumption DEF DriverAsks, TypeOK, Threads
  <1>2. ASSUME NEW x \in Devs PROVE Asked(x)'
    <2>1. CASE x = d
      BY <2>1 DEF DriverAsks
    <2>2. CASE x # d
      BY <1>1, <2>2 DEF AllAsked, Asked
    <2> QED
      BY <2>1, <2>2
  <1>3. ASSUME NEW a \in Appls PROVE Asks(a)'
    <2>1. CASE /\ capi_devs_list' \subseteq capi_devs_list
               /\ d \in capi_devs_list' => offered'[d] = offered[d]
      <3>1. \A x \in capi_devs_list' : x \in capi_devs_list /\ x \in Devs /\ offered'[x] = offered[x]
        BY <1>1, <2>1 DEF TypeOK
      <3> QED
        BY <1>1, <3>1 DEF AllAsked, Asks
    <2>2. CASE /\ capi_devs_list' = capi_devs_list \cup {d}
               /\ capi_appls_list \subseteq offered'[d]
               /\ \A b \in Appls : pc[b] \notin Walking
      <3>1. \A x \in capi_devs_list : x # d => offered'[x] = offered[x]
        BY <1>1 DEF TypeOK
      <3> QED
        BY <1>1, <2>2, <3>1 DEF AllAsked, Asks
    <2> QED
      BY <2>1, <2>2 DEF DriverAsks
  <1> QED
    BY <1>2, <1>3 DEF AllAsked

(* A driver step outside the walk connects nobody. *)
DriverKeepsBits(d, q) ==
  /\ UNCHANGED <<devs, cursor, at>>
  /\ \A x \in Devs : x # d => id'[x] = id[x]
  /\ q \in Connected => pc[d] \in Connected /\ known'[d] = known[d] /\ id'[d] = id[d]

LEMMA DriverAgrees ==
  ASSUME TypeOK, AllAgree, NEW d \in Devs, NEW q, DriverAsks(d, q), DriverKeepsBits(d, q)
  PROVE  AllAgree'
  <1> SUFFICES ASSUME NEW x \in Devs, NEW a \in Appls PROVE Agree(x, a)'
    BY DEF AllAgree
  <1>1. /\ pc'[a] = pc[a] /\ at'[a] = at[a] /\ Held(a)' = Held(a)
        /\ pc'[x] \in Connected =>
             pc[x] \in Connected /\ known'[x] = known[x] /\ id'[x] = id[x]
    BY ThreadsAssumption DEF DriverAsks, DriverKeepsBits, Held, TypeOK, Threads
  <1> QED
    BY <1>1 DEF AllAgree, Agree

LEMMA DriverMeets ==
  ASSUME CoreInv, RefInv, MeetInv, NEW d \in Devs, DriverGoesOn(d) \/ DriverBegins(d)
  PROVE  MeetInv'
  <1>0. /\ TypeOK /\ ListLocking /\ ListWalks /\ d \in Threads /\ \A a \in Appls : a # d
        /\ AllAsked /\ AllAgree /\ Asked(d)
    BY ThreadsAssumption DEF CoreInv, Threads, MeetInv, AllAsked
  <1>a. ASSUME NEW q, DriverAsks(d, q), DriverKeepsBits(d, q) PROVE MeetInv'
    BY <1>0, <1>a, DriverAsksKeeps, DriverAgrees DEF MeetInv
  (* Most steps concern neither the walks nor the list. *)
  <1>b. ASSUME NEW q \in DevPC, Goto(d, pc[d], q),
               UNCHANGED <<capi_appls_list, offered, known, walked, devs, cursor, at>>,
               capi_devs_list' \subseteq capi_devs_list,
               \A x \in Devs : x # d => id'[x] = id[x],
               q \in Connected => pc[d] \in Connected /\ id'[d] = id[d],
               q \in {"none", "allocated", "bind"} => pc[d] \in {"none", "allocated", "bind"},
               q \in {"walk", "get"} <=> pc[d] \in {"walk", "get"},
               q # "open"
        PROVE  MeetInv'
    <2>1. pc'[d] = q
      BY <1>0, <1>b DEF Goto, TypeOK
    <2>2. Asked(d)'
      BY <1>0, <1>b, <2>1 DEF Asked
    <2>3. DriverAsks(d, q) /\ DriverKeepsBits(d, q)
      BY <1>b, <2>2 DEF DriverAsks, DriverKeepsBits, Goto
    <2> QED
      BY <1>a, <2>3
  <1>1. ASSUME bind_capi_device(d) PROVE MeetInv'
    <2>0. /\ pc[d] = "bind" /\ list_sem = {} /\ offered[d] = {} /\ known[d] = {}
          /\ walked[d] = {} /\ d \notin capi_devs_list
          /\ \A x \in Devs : x # d => id'[x] = id[x]
          /\ UNCHANGED <<capi_appls_list, offered, known, walked, devs, cursor, at,
                         capi_devs_list>>
      BY <1>0, <1>1
      DEF bind_capi_device, CanWriteList, Goto, Asked, ListWalks, TypeOK, appl, driver, locals
    <2>1. CASE /\ Goto(d, "bind", "walk") /\ add_capi_device # 0
               /\ capi_devs_table' = [capi_devs_table EXCEPT ![add_capi_device] = d]
      <3>1. pc'[d] = "walk" /\ id'[d] = add_capi_device
        BY <1>0, <1>1, <2>1 DEF bind_capi_device, Goto, TypeOK
      <3>2. Asked(d)'
        BY <2>0, <3>1 DEF Asked
      <3>3. DriverAsks(d, "walk")
        BY <2>0, <2>1, <3>2 DEF DriverAsks, Goto, DevPC
      <3>4. AllAsked'
        BY <1>0, <3>3, DriverAsksKeeps
      <3>5. \A a \in Appls : id'[d] \notin Held(a)
        BY <2>1, <3>1, AddDevice DEF RefInv, HeldBits
      <3>6. ASSUME NEW x \in Devs, NEW a \in Appls PROVE Agree(x, a)'
        <4>1. pc'[a] = pc[a] /\ Held(a)' = Held(a) /\ pc[a] \notin {"in_release", "put"}
          BY <1>0, <2>0, <2>1 DEF Goto, Held, TypeOK, Threads, ListLocking
        <4>2. CASE x = d
          BY <2>0, <3>1, <3>5, <4>1, <4>2 DEF Agree
        <4>3. CASE x # d
          <5>1. pc'[x] = pc[x]
            BY <1>0, <2>1, <4>3 DEF Goto, TypeOK, Threads
          <5> QED
            BY <1>0, <2>0, <4>1, <4>3, <5>1 DEF AllAgree, Agree
        <4> QED
          BY <4>2, <4>3
      <3> QED
        BY <3>4, <3>6 DEF MeetInv, AllAgree
    <2>2. CASE Goto(d, "bind", "failed")
      BY <1>b, <2>0, <2>2 DEF Goto, DevPC, Connected
    <2> QED
      BY <1>1, <2>1, <2>2 DEF bind_capi_device
  <1>2. ASSUME register_next_appl(d) PROVE MeetInv'
    <2>1. PICK a \in capi_appls_list \ walked[d] :
             /\ walked' = [walked EXCEPT ![d] = @ \cup {a}]
             /\ offered' = [offered EXCEPT ![d] = @ \cup {a}]
             /\ \/ /\ Goto(d, "walk", "get")
                   /\ known' = [known EXCEPT ![d] = @ \cup {a}]
                   /\ devs' = [devs EXCEPT ![a] = @ \cup {id[d]}]
                \/ Goto(d, "walk", "walk") /\ UNCHANGED <<known, devs>>
      BY <1>2 DEF register_next_appl
    <2>2. a \in Appls
      BY <1>0 DEF TypeOK
    <2>3. /\ pc[d] = "walk" /\ d \notin capi_devs_list /\ pc'[d] \in {"walk", "get"}
          /\ walked'[d] = walked[d] \cup {a} /\ offered'[d] = offered[d] \cup {a}
          /\ \A x \in Devs : x # d => offered'[x] = offered[x] /\ known'[x] = known[x]
          /\ \A t \in Threads : t # d => walked'[t] = walked[t] /\ pc'[t] = pc[t]
          /\ UNCHANGED <<capi_appls_list, capi_devs_list, cursor, at, id>>
      BY <1>0, <1>2, <2>1 DEF register_next_appl, Goto, TypeOK, ListWalks, registry
    <2>4. Asked(d)'
      BY <1>0, <2>1, <2>3 DEF Asked
    <2>5. DriverAsks(d, pc'[d])
      <3>1. pc' = [pc EXCEPT ![d] = pc'[d]]
        BY <1>0, <2>1 DEF Goto, TypeOK
      <3> QED
        BY <1>0, <2>3, <2>4, <3>1 DEF DriverAsks, DevPC, Threads
    <2>6. CASE /\ Goto(d, "walk", "get")
               /\ known' = [known EXCEPT ![d] = @ \cup {a}]
               /\ devs' = [devs EXCEPT ![a] = @ \cup {id[d]}]
      <3>1. AllAsked'
        BY <1>0, <2>5, DriverAsksKeeps
      <3>2. pc'[d] = "get" /\ known'[d] = known[d] \cup {a}
        BY <1>0, <2>6 DEF Goto, TypeOK
      <3>3. \A b \in Appls : pc'[b] = pc[b] /\ pc[b] \notin {"loop", "in_release", "put"}
        BY <1>0, <2>3 DEF ListLocking, Threads
      <3>4. cursor[a] = 1 /\ id[d] \in Slots
        BY <1>0, <2>1, <2>2, <2>3, <3>3
        DEF RefInv, ApplPlaces, Placed, Releasing, ListWalks, Operating
      <3>5. Held(a)' = Held(a) \cup {id[d]} /\ \A b \in Appls : b # a => Held(b)' = Held(b)
        BY <1>0, <2>2, <2>3, <2>6, <3>4, SizesAssumption DEF Held, Slots, TypeOK
      <3>6. ASSUME NEW x \in Devs, NEW b \in Appls PROVE Agree(x, b)'
        <4>1. CASE x = d
          BY <1>0, <2>3, <3>2, <3>3, <3>5, <4>1 DEF AllAgree, Agree, Connected
        <4>2. CASE x # d
          <5>1. pc[x] \in Connected => id[x] # id[d]
            <6>1. pc[x] \in Connected => capi_devs_table[id[x]] = x
              BY DEF RefInv, TableNumbers, HasNumber, Numbered, Operating, Connected
            <6>2. capi_devs_table[id[d]] = d
              BY <2>3 DEF RefInv, TableNumbers, HasNumber, Numbered, Operating
            <6> QED
              BY <4>2, <6>1, <6>2
          <5>2. pc'[x] = pc[x] /\ known'[x] = known[x] /\ id'[x] = id[x]
            BY <2>3, <4>2 DEF Threads
          <5> QED
            BY <1>0, <2>3, <3>3, <3>5, <5>1, <5>2 DEF AllAgree, Agree
        <4> QED
          BY <4>1, <4>2
      <3> QED
        BY <3>1, <3>6 DEF MeetInv, AllAgree
    <2>7. CASE Goto(d, "walk", "walk") /\ UNCHANGED <<known, devs>>
      BY <1>a, <2>3, <2>5, <2>7 DEF DriverKeepsBits, Connected
    <2> QED
      BY <2>1, <2>6, <2>7
  <1>3. ASSUME register_next_appl_get(d) PROVE MeetInv'
    BY <1>b, <1>3
    DEF register_next_appl_get, Goto, DevPC, Connected, appl, driver, locals
  <1>4. ASSUME bind_capi_device_open(d) PROVE MeetInv'
    <2>1. /\ pc[d] = "walk" /\ pc'[d] = "open" /\ walked'[d] = {}
          /\ pc' = [pc EXCEPT ![d] = "open"]
          /\ \A t \in Threads : t # d => walked'[t] = walked[t]
          /\ capi_appls_list \subseteq walked[d]
          /\ UNCHANGED <<capi_appls_list, capi_devs_list, offered, known, devs, cursor, at, id>>
      BY <1>0, <1>4
      DEF bind_capi_device_open, Goto, TypeOK, registry, appl, driver
    <2>2. Asked(d)'
      BY <1>0, <2>1 DEF Asked
    <2>3. DriverAsks(d, "open") /\ DriverKeepsBits(d, "open")
      BY <1>0, <2>1, <2>2 DEF DriverAsks, DriverKeepsBits, DevPC, Connected, Threads
    <2> QED
      BY <1>a, <2>3
  <1>5. ASSUME bind_capi_device_done(d) PROVE MeetInv'
    <2>1. /\ pc[d] = "open" /\ pc'[d] = "sysfs" /\ pc' = [pc EXCEPT ![d] = "sysfs"]
          /\ capi_devs_list' = capi_devs_list \cup {d}
          /\ UNCHANGED <<capi_appls_list, offered, known, walked, devs, cursor, at, id>>
      BY <1>0, <1>5 DEF bind_capi_device_done, Goto, TypeOK, appl, driver, locals
    <2>2. Asked(d)' /\ capi_appls_list \subseteq offered[d]
      BY <1>0, <2>1 DEF Asked
    <2>3. \A a \in Appls : pc[a] \notin Walking
      BY <1>0, <2>1 DEF ListLocking, Walking
    <2>4. DriverAsks(d, "sysfs") /\ DriverKeepsBits(d, "sysfs")
      BY <1>0, <2>1, <2>2, <2>3 DEF DriverAsks, DriverKeepsBits, DevPC, Connected
    <2> QED
      BY <1>a, <2>4
  <1>6. ASSUME capi_device_register_sysfs(d) PROVE MeetInv'
    BY <1>b, <1>6
    DEF capi_device_register_sysfs, Goto, DevPC, Connected, registry, appl, driver, locals
  <1>7. ASSUME unregister_capi_device(d) PROVE MeetInv'
    BY <1>b, <1>7
    DEF unregister_capi_device, Goto, DevPC, Connected, appl, driver, locals
  <1>8. ASSUME unregister_capi_device_quiesce(d) PROVE MeetInv'
    BY <1>b, <1>8
    DEF unregister_capi_device_quiesce, Goto, DevPC, Connected, registry, appl, driver, locals
  <1>9. ASSUME unregister_capi_device_count(d) PROVE MeetInv'
    BY <1>b, <1>9
    DEF unregister_capi_device_count, Goto, DevPC, Connected, appl, driver, locals
  <1>10. ASSUME capi_device_alloc(d) PROVE MeetInv'
    <2>1. \A x \in Devs : x # d => id'[x] = id[x]
      BY <1>0, <1>10 DEF capi_device_alloc, TypeOK
    <2> QED
      BY <1>b, <1>10, <2>1
      DEF capi_device_alloc, Goto, DevPC, Connected, appl, driver, locals
  <1>11. ASSUME capi_device_register(d) PROVE MeetInv'
    BY <1>b, <1>11
    DEF capi_device_register, Goto, DevPC, Connected, registry, appl, driver, locals
  <1>12. ASSUME capi_device_unregister(d) PROVE MeetInv'
    BY <1>b, <1>12
    DEF capi_device_unregister, Goto, DevPC, Connected, registry, appl, driver, locals
  <1>13. ASSUME driver_put(d) PROVE MeetInv'
    <2>1. /\ pc[d] \in {"allocated", "failed", "unregistered"} /\ pc'[d] = "none"
          /\ pc' = [pc EXCEPT ![d] = "none"] /\ d \notin capi_devs_list
          /\ offered'[d] = {} /\ known'[d] = {}
          /\ \A x \in Devs : x # d => offered'[x] = offered[x] /\ known'[x] = known[x]
          /\ UNCHANGED <<capi_appls_list, capi_devs_list, walked, devs, cursor, at, id>>
      BY <1>0, <1>13 DEF driver_put, Goto, TypeOK, ListWalks, appl, locals
    <2>2. Asked(d)'
      BY <1>0, <2>1 DEF Asked
    <2>3. DriverAsks(d, "none") /\ DriverKeepsBits(d, "none")
      BY <1>0, <2>1, <2>2 DEF DriverAsks, DriverKeepsBits, DevPC, Connected
    <2> QED
      BY <1>a, <2>3
  <1> QED
    BY <1>1, <1>2, <1>3, <1>4, <1>5, <1>6, <1>7, <1>8, <1>9, <1>10, <1>11, <1>12, <1>13
    DEF DriverGoesOn, DriverBegins

-------------------------------------------------------------------------------
(* Application steps *)

(* What an application step may do to the walks of the others. *)
ApplAsks(a, q) ==
  /\ q \in ApplPC /\ pc' = [pc EXCEPT ![a] = q]
  /\ capi_devs_list' = capi_devs_list
  /\ \A b \in Appls : b # a =>
       walked'[b] = walked[b] /\ (b \in capi_appls_list' <=> b \in capi_appls_list)
  /\ \A x \in Devs :
       /\ walked'[x] = walked[x]
       /\ \A b \in Appls : b # a => (b \in offered'[x] <=> b \in offered[x])
       /\ offered'[x] \in SUBSET capi_appls_list'
       /\ pc[x] \in {"none", "allocated", "bind"} =>
            offered'[x] = offered[x] /\ known'[x] = known[x]
       /\ pc[x] \in {"walk", "get", "open"} =>
            offered'[x] = offered[x] /\ capi_appls_list' = capi_appls_list
  /\ Asks(a)'

LEMMA ApplAsksKeeps ==
  ASSUME TypeOK, AllAsked, NEW a \in Appls, NEW q, ApplAsks(a, q)
  PROVE  AllAsked'
  <1>1. /\ \A x \in Devs : pc'[x] = pc[x]
        /\ \A b \in Appls : b # a => pc'[b] = pc[b]
    BY ThreadsAssumption DEF ApplAsks, TypeOK, Threads
  <1>2. ASSUME NEW x \in Devs PROVE Asked(x)'
    BY <1>1 DEF AllAsked, Asked, ApplAsks
  <1>3. ASSUME NEW b \in Appls PROVE Asks(b)'
    <2>1. CASE b = a
      BY <2>1 DEF ApplAsks
    <2>2. CASE b # a
      <3>1. /\ pc'[b] = pc[b] /\ walked'[b] = walked[b] /\ capi_devs_list' = capi_devs_list
            /\ b \in capi_appls_list' <=> b \in capi_appls_list
            /\ \A x \in capi_devs_list : b \in offered'[x] <=> b \in offered[x]
        BY <1>1, <2>2 DEF ApplAsks, TypeOK
      <3> QED
        BY <3>1 DEF AllAsked, Asks
    <2> QED
      BY <2>1, <2>2
  <1> QED
    BY <1>2, <1>3 DEF AllAsked

(* ... and to the bits and the known applications of the others. *)
ApplAgrees(a) ==
  /\ UNCHANGED id
  /\ \A b \in Appls : b # a => at'[b] = at[b] /\ devs'[b] = devs[b] /\ cursor'[b] = cursor[b]
  /\ \A x \in Devs : \A b \in Appls : b # a => (b \in known'[x] <=> b \in known[x])
  /\ \A x \in Devs : Agree(x, a)'

LEMMA ApplAgreesKeeps ==
  ASSUME TypeOK, AllAgree, NEW a \in Appls, NEW q, ApplAsks(a, q), ApplAgrees(a)
  PROVE  AllAgree'
  <1> SUFFICES ASSUME NEW x \in Devs, NEW b \in Appls, b # a PROVE Agree(x, b)'
    BY DEF AllAgree, ApplAgrees
  <1>1. /\ pc'[x] = pc[x] /\ pc'[b] = pc[b] /\ at'[b] = at[b] /\ id' = id
        /\ Held(b)' = Held(b) /\ (b \in known'[x] <=> b \in known[x])
    BY ThreadsAssumption DEF ApplAsks, ApplAgrees, Held, TypeOK, Threads
  <1> QED
    BY <1>1 DEF AllAgree, Agree

LEMMA ApplMeets ==
  ASSUME CoreInv, RefInv, MeetInv, NEW a \in Appls, ApplGoesOn(a) \/ ApplBegins(a)
  PROVE  MeetInv'
  <1>0. /\ TypeOK /\ ListLocking /\ ListWalks /\ a \in Threads /\ \A x \in Devs : a # x
        /\ AllAsked /\ AllAgree /\ Asks(a) /\ \A x \in Devs : Asked(x) /\ Agree(x, a)
        /\ Placed(a) /\ Local(a)
    BY ThreadsAssumption
    DEF CoreInv, Threads, MeetInv, AllAsked, AllAgree, RefInv, ApplPlaces, Locals
  <1>w. a \in list_sem => \A x \in Devs : pc[x] \notin {"walk", "get", "open"}
    BY <1>0 DEF ListLocking
  <1>a. ASSUME NEW q, ApplAsks(a, q), ApplAgrees(a) PROVE MeetInv'
    BY <1>0, <1>a, ApplAsksKeeps, ApplAgreesKeeps DEF MeetInv
  (* Most steps change neither who was asked nor who is known. *)
  <1>b. ASSUME NEW q \in ApplPC, pc' = [pc EXCEPT ![a] = q],
               UNCHANGED <<capi_devs_list, capi_appls_list, offered, known, walked>>,
               Asks(a)'
        PROVE  ApplAsks(a, q)
    BY <1>0, <1>b DEF ApplAsks, Asked, Threads
  <1>c. ASSUME NEW q \in ApplPC, pc' = [pc EXCEPT ![a] = q],
               UNCHANGED <<id, known>>, Held(a)' = Held(a),
               \A b \in Appls : b # a =>
                 at'[b] = at[b] /\ devs'[b] = devs[b] /\ cursor'[b] = cursor[b],
               pc[a] \notin {"in_release", "put"}, q \notin {"in_release", "put"}
        PROVE  ApplAgrees(a)
    <2>1. pc'[a] = q /\ \A x \in Devs : pc'[x] = pc[x]
      BY <1>0, <1>c DEF TypeOK, Threads
    <2>2. \A x \in Devs : Agree(x, a)'
      BY <1>0, <1>c, <2>1 DEF Agree
    <2> QED
      BY <1>c, <2>2 DEF ApplAgrees
  (* Steps between two walks. *)
  <1>d. ASSUME NEW q \in ApplPC, pc' = [pc EXCEPT ![a] = q],
               UNCHANGED <<capi_devs_list, capi_appls_list, offered, known, walked, id,
                           devs, cursor>>,
               \A b \in Appls : b # a => at'[b] = at[b],
               pc[a] \notin Walking \cup {"in_release", "put"},
               q \notin Walking \cup {"in_release", "put"},
               a \in capi_appls_list /\ q \in Settled => pc[a] \in Settled
        PROVE  MeetInv'
    <2>1. pc'[a] = q
      BY <1>0, <1>d DEF TypeOK
    <2>2. Asks(a)'
      BY <1>0, <1>d, <2>1 DEF Asks
    <2>3. Held(a)' = Held(a)
      BY <1>d DEF Held
    <2> QED
      BY <1>a, <1>b, <1>c, <1>d, <2>2, <2>3
  <1>1. ASSUME bind_capi_appl(a) PROVE MeetInv'
    <2>0. /\ pc[a] = "bind" /\ a \notin capi_appls_list /\ walked[a] = {}
          /\ \A x \in Devs : a \notin offered[x] /\ pc[x] \notin {"walk", "get", "open"}
          /\ UNCHANGED <<capi_devs_list, offered, known, walked, id, devs, cursor, at>>
      BY <1>0, <1>1
      DEF bind_capi_appl, CanReadList, Goto, Placed, OutsideList, Asks, Walking, Asked,
          ListLocking, appl, driver, locals
    <2>1. CASE Goto(a, "bind", "walk") /\ capi_appls_list' = capi_appls_list \cup {a}
      <3>1. pc'[a] = "walk" /\ Held(a)' = Held(a)
        BY <1>0, <2>0, <2>1 DEF Goto, TypeOK, Held
      <3>2. Asks(a)'
        <4>1. \A x \in capi_devs_list : a \notin offered[x] /\ x \notin walked[a]
          BY <1>0, <2>0 DEF TypeOK
        <4> QED
          BY <2>0, <3>1, <4>1 DEF Asks, Walking, Settled
      <3>3. ApplAsks(a, "walk")
        BY <1>0, <2>0, <2>1, <3>2 DEF ApplAsks, Goto, ApplPC, Asked, Threads
      <3>4. ApplAgrees(a)
        BY <1>c, <2>0, <2>1, <3>1 DEF Goto, ApplPC
      <3> QED
        BY <1>a, <3>3, <3>4
    <2>2. CASE Goto(a, "bind", "unregistered") /\ UNCHANGED capi_appls_list
      BY <1>d, <2>0, <2>2 DEF Goto, ApplPC, Walking, Settled
    <2> QED
      BY <1>1, <2>1, <2>2 DEF bind_capi_appl
  <1>2. ASSUME register_next_device(a) PROVE MeetInv'
    <2>0. PICK d \in capi_devs_list \ walked[a] :
            /\ walked' = [walked EXCEPT ![a] = @ \cup {d}] /\ at' = [at EXCEPT ![a] = d]
            /\ offered' = [offered EXCEPT ![d] = @ \cup {a}]
      BY <1>2 DEF register_next_device
    <2>1. /\ pc[a] = "walk" /\ pc'[a] = "in_register" /\ pc' = [pc EXCEPT ![a] = "in_register"]
          /\ a \in capi_appls_list /\ d \in Devs
          /\ walked'[a] = walked[a] \cup {d} /\ offered'[d] = offered[d] \cup {a}
          /\ \A x \in Devs : x # d => offered'[x] = offered[x]
          /\ \A t \in Threads : t # a => walked'[t] = walked[t]
          /\ \A b \in Appls : b # a => at'[b] = at[b]
          /\ UNCHANGED <<capi_devs_list, capi_appls_list, known, id, devs, cursor>>
      BY <1>0, <1>2, <2>0
      DEF register_next_device, Goto, TypeOK, Placed, InList, registry, appl
    <2>2. Asks(a)'
      <3>1. \A x \in capi_devs_list : a \in offered'[x] <=> x \in walked'[a]
        <4>1. \A x \in capi_devs_list : x \in Devs /\ (a \in offered[x] <=> x \in walked[a])
          BY <1>0, <2>1 DEF Asks, Walking, TypeOK
        <4> QED
          BY <2>1, <4>1
      <3> QED
        BY <2>1, <3>1 DEF Asks, Walking, Settled
    <2>3. pc[d] \notin {"none", "allocated", "bind", "walk", "get", "open"}
      BY <1>0, <2>0, <2>1 DEF ListWalks
    <2>4. ApplAsks(a, "in_register")
      BY <1>0, <2>1, <2>2, <2>3 DEF ApplAsks, ApplPC, Asked, Threads
    <2>5. ApplAgrees(a)
      <3>1. Held(a)' = Held(a)
        BY <2>1 DEF Held
      <3> QED
        BY <1>c, <2>1, <3>1 DEF ApplPC
    <2> QED
      BY <1>a, <2>4, <2>5
  <1>3. ASSUME register_next_device_return(a) PROVE MeetInv'
    <2> DEFINE d == at[a]
    <2>0. /\ pc[a] = "in_register" /\ d \in capi_devs_list /\ d \in Devs
          /\ a \in capi_appls_list /\ cursor[a] = 1
          /\ UNCHANGED <<capi_devs_list, capi_appls_list, offered, walked, id, cursor, at>>
      BY <1>0, <1>3
      DEF register_next_device_return, Goto, ListWalks, TypeOK, Placed, InList, Releasing,
          registry, locals
    <2>1. id[d] \in Slots /\ capi_devs_table[id[d]] = d
      BY <1>0, <2>0
      DEF ListWalks, RefInv, TableNumbers, HasNumber, Numbered, Operating
    <2> HIDE DEF d
    <2>2. CASE /\ Goto(a, "in_register", "get")
               /\ known' = [known EXCEPT ![d] = @ \cup {a}]
               /\ devs' = [devs EXCEPT ![a] = @ \cup {id[d]}]
      <3>1. /\ pc' = [pc EXCEPT ![a] = "get"] /\ pc'[a] = "get"
            /\ \A x \in Devs : pc'[x] = pc[x]
            /\ known'[d] = known[d] \cup {a}
            /\ \A x \in Devs : x # d => known'[x] = known[x]
            /\ Held(a)' = Held(a) \cup {id[d]}
            /\ \A b \in Appls : b # a => devs'[b] = devs[b]
        BY <1>0, <2>0, <2>1, <2>2, SizesAssumption DEF Goto, TypeOK, Threads, Held, Slots
      <3>2. Asks(a)'
        BY <1>0, <2>0, <3>1 DEF Asks, Walking, Settled
      <3>3. pc[d] \notin {"none", "allocated", "bind"}
        BY <1>0, <2>0 DEF ListWalks
      <3>4. ApplAsks(a, "get")
        BY <1>0, <2>0, <3>1, <3>2, <3>3 DEF ApplAsks, ApplPC, Asked, Threads
      <3>5. ASSUME NEW x \in Devs PROVE Agree(x, a)'
        <4>1. CASE x = d
          BY <2>0, <3>1, <4>1 DEF Agree
        <4>2. CASE x # d
          <5>1. pc[x] \in Connected => id[x] # id[d]
            BY <2>1, <4>2
            DEF RefInv, TableNumbers, HasNumber, Numbered, Operating, Connected
          <5> QED
            BY <1>0, <2>0, <3>1, <4>2, <5>1 DEF Agree
        <4> QED
          BY <4>1, <4>2
      <3>6. ApplAgrees(a)
        BY <2>0, <3>1, <3>5 DEF ApplAgrees
      <3> QED
        BY <1>a, <3>4, <3>6
    <2>3. CASE Goto(a, "in_register", "walk") /\ UNCHANGED <<known, devs>>
      <3>1. pc'[a] = "walk" /\ Held(a)' = Held(a)
        BY <1>0, <2>0, <2>3 DEF Goto, TypeOK, Held
      <3>2. Asks(a)'
        BY <1>0, <2>0, <3>1 DEF Asks, Walking, Settled
      <3> QED
        BY <1>a, <1>b, <1>c, <2>0, <2>3, <3>1, <3>2 DEF Goto, ApplPC
    <2> QED
      BY <1>3, <2>2, <2>3 DEF register_next_device_return, d
  <1>4. ASSUME register_next_device_get(a) PROVE MeetInv'
    <2>1. /\ pc[a] = "get" /\ pc'[a] = "walk" /\ pc' = [pc EXCEPT ![a] = "walk"]
          /\ UNCHANGED <<capi_devs_list, capi_appls_list, offered, known, walked, id, devs,
                         cursor, at>>
      BY <1>0, <1>4
      DEF register_next_device_get, Goto, TypeOK, appl, driver, locals
    <2>2. Asks(a)' /\ Held(a)' = Held(a)
      BY <1>0, <2>1 DEF Asks, Walking, Settled, Held
    <2> QED
      BY <1>a, <1>b, <1>c, <2>1, <2>2 DEF ApplPC
  <1>5. ASSUME bind_capi_appl_done(a) PROVE MeetInv'
    <2>1. /\ pc[a] = "walk" /\ pc'[a] = "idle" /\ pc' = [pc EXCEPT ![a] = "idle"]
          /\ capi_devs_list \subseteq walked[a] /\ walked'[a] = {}
          /\ \A t \in Threads : t # a => walked'[t] = walked[t]
          /\ \A b \in Appls : b # a => at'[b] = at[b]
          /\ UNCHANGED <<capi_devs_list, capi_appls_list, offered, known, id, devs, cursor>>
      BY <1>0, <1>5 DEF bind_capi_appl_done, Goto, TypeOK, registry, appl, driver
    <2>2. Asks(a)' /\ Held(a)' = Held(a)
      BY <1>0, <2>1 DEF Asks, Walking, Settled, Held
    <2>3. ApplAsks(a, "idle")
      BY <1>0, <2>1, <2>2 DEF ApplAsks, ApplPC, Asked, Threads
    <2> QED
      BY <1>a, <1>c, <2>1, <2>2, <2>3 DEF ApplPC
  <1>6. ASSUME \/ capi_put_message_trylock(a) \/ capi_put_message_return(a)
               \/ capi_get_profile(a) \/ capi_put_message(a)
        PROVE  MeetInv'
    <2>1. \A b \in Appls : b # a => at'[b] = at[b]
      BY <1>0, <1>6
      DEF capi_put_message_trylock, capi_put_message_return, capi_get_profile,
          capi_put_message, TypeOK
    <2>2. CASE capi_put_message_trylock(a) \/ capi_put_message_return(a)
      BY <1>d, <2>1, <2>2
      DEF capi_put_message_trylock, capi_put_message_return, Goto, registry, appl, driver,
          ApplPC, Walking, Settled
    <2>3. CASE capi_get_profile(a) \/ capi_put_message(a)
      BY <1>d, <2>1, <2>3
      DEF capi_get_profile, capi_put_message, Goto, registry, appl, driver, ApplPC,
          Walking, Settled
    <2> QED
      BY <1>6, <2>2, <2>3
  <1>7. ASSUME try_get_capi_device_by_id(a) PROVE MeetInv'
    <2>1. \A b \in Appls : b # a => at'[b] = at[b]
      BY <1>0, <1>7 DEF try_get_capi_device_by_id, TypeOK
    <2>2. pc[a] = "unregistered" => a \notin capi_appls_list
      BY <1>0 DEF Placed, OutsideList
    <2> QED
      BY <1>d, <1>7, <2>1, <2>2
      DEF try_get_capi_device_by_id, Goto, registry, appl, driver, ApplPC, Walking, Settled
  <1>8. ASSUME capi_get_message(a) \/ capi_release(a) \/ capi_release_lock(a) PROVE MeetInv'
    BY <1>d, <1>8
    DEF capi_get_message, capi_release, capi_release_lock, Goto, registry, appl, driver,
        locals, ApplPC, Walking, Settled
  <1>9. ASSUME capi_register(a) PROVE MeetInv'
    <2>1. /\ pc[a] = "unregistered" /\ pc'[a] = "bind" /\ pc' = [pc EXCEPT ![a] = "bind"]
          /\ Held(a) = {} /\ devs'[a] = {}
          /\ \A b \in Appls : b # a => devs'[b] = devs[b] /\ cursor'[b] = cursor[b]
          /\ UNCHANGED <<capi_devs_list, capi_appls_list, offered, known, walked, id, at>>
      BY <1>0, <1>9
      DEF capi_register, Goto, TypeOK, Placed, OutsideList, registry, driver
    <2>2. Asks(a)' /\ Held(a)' = Held(a)
      BY <1>0, <2>1 DEF Asks, Walking, Settled, Held
    <2> QED
      BY <1>a, <1>b, <1>c, <2>1, <2>2 DEF ApplPC
  <1>10. ASSUME capi_release_next(a) PROVE MeetInv'
    <2>1. PICK i \in Slots :
            /\ i \in Held(a) /\ \A j \in Held(a) : i <= j
            /\ cursor' = [cursor EXCEPT ![a] = i]
            /\ at' = [at EXCEPT ![a] = capi_devs_table[i]]
            /\ \/ capi_devs_table[i] \in capi_devs_list /\ Goto(a, "loop", "in_release")
               \/ capi_devs_table[i] \notin capi_devs_list /\ Goto(a, "loop", "put")
            /\ UNCHANGED <<registry, sems, appl, driver, walked>>
      BY <1>0, <1>10, ReleaseNext
    <2>2. PICK q \in {"in_release", "put"} :
            Goto(a, "loop", q) /\ (q = "put" => capi_devs_table[i] \notin capi_devs_list)
      BY <2>1
    <2>3. /\ pc[a] = "loop" /\ pc'[a] = q /\ pc' = [pc EXCEPT ![a] = q]
          /\ \A x \in Devs : pc'[x] = pc[x]
          /\ at'[a] = capi_devs_table[i]
          /\ \A b \in Appls : b # a => at'[b] = at[b] /\ cursor'[b] = cursor[b]
          /\ cursor'[a] = i
          /\ UNCHANGED <<capi_devs_list, capi_appls_list, offered, known, walked, id, devs>>
      BY <1>0, <2>1, <2>2 DEF Goto, TypeOK, Threads, registry, appl, driver
    <2>4. Held(a)' = Held(a)
      <3>1. cursor[a] \in Nat /\ i \in Nat /\ devs[a] \subseteq Nat /\ i >= cursor[a]
        BY <1>0, <2>1, SizesAssumption DEF TypeOK, Slots, Held
      <3>2. \A j \in devs[a] : j >= i <=> j >= cursor[a]
        BY <2>1, <3>1 DEF Held
      <3> QED
        BY <2>3, <3>2 DEF Held
    <2>5. Asks(a)'
      BY <1>0, <2>3 DEF Asks, Walking, Settled
    <2>6. ASSUME NEW x \in Devs PROVE Agree(x, a)'
      <3>1. q = "put" /\ at'[a] = x => pc[x] \notin Connected
        BY <1>0, <1>w, <2>2, <2>3 DEF ListLocking, ListWalks, Connected
      <3> QED
        BY <1>0, <2>3, <2>4, <3>1 DEF Agree
    <2>7. ApplAgrees(a)
      BY <2>3, <2>6 DEF ApplAgrees
    <2> QED
      BY <1>a, <1>b, <2>3, <2>5, <2>7 DEF ApplPC
  <1>11. ASSUME driver_release(a) PROVE MeetInv'
    <2>1. /\ pc[a] = "in_release" /\ pc' = pc
          /\ \A x \in Devs : known'[x] \subseteq known[x] /\ known[x] \ {a} \subseteq known'[x]
          /\ \A x \in Devs : x # at[a] => known'[x] = known[x]
          /\ UNCHANGED <<capi_devs_list, capi_appls_list, offered, walked, id, devs, cursor, at>>
      BY <1>0, <1>11
      DEF driver_release, Goto, TypeOK, registry, appl, locals
    <2>2. Asks(a)' /\ Held(a)' = Held(a)
      BY <1>0, <2>1 DEF Asks, Held
    <2>3. \A x \in Devs : pc[x] \in {"none", "allocated", "bind"} => known'[x] = known[x]
      BY <1>0, <2>1 DEF Asked
    <2>4. ApplAsks(a, "in_release")
      BY <1>0, <2>1, <2>2, <2>3 DEF ApplAsks, ApplPC, Asked, TypeOK
    <2>5. ASSUME NEW x \in Devs PROVE Agree(x, a)'
      BY <1>0, <2>1, <2>2 DEF Agree
    <2>6. ApplAgrees(a)
      BY <2>1, <2>5 DEF ApplAgrees
    <2> QED
      BY <1>a, <2>4, <2>6
  <1>12. ASSUME driver_release_return(a) PROVE MeetInv'
    <2>1. /\ pc[a] = "in_release" /\ pc'[a] = "put" /\ pc' = [pc EXCEPT ![a] = "put"]
          /\ \A x \in Devs : pc'[x] = pc[x]
          /\ a \notin known[at[a]]
          /\ UNCHANGED <<capi_devs_list, capi_appls_list, offered, known, walked, id, devs,
                         cursor, at>>
      BY <1>0, <1>12
      DEF driver_release_return, Goto, TypeOK, Threads, registry, appl, driver, locals
    <2>2. Asks(a)' /\ Held(a)' = Held(a)
      BY <1>0, <2>1 DEF Asks, Walking, Settled, Held
    <2>3. ASSUME NEW x \in Devs PROVE Agree(x, a)'
      BY <1>0, <2>1, <2>2 DEF Agree
    <2>4. ApplAgrees(a)
      BY <2>1, <2>3 DEF ApplAgrees
    <2> QED
      BY <1>a, <1>b, <2>1, <2>2, <2>4 DEF ApplPC
  <1>13. ASSUME capi_release_put(a) PROVE MeetInv'
    <2> DEFINE d == at[a]
               c == cursor[a]
    <2>0. /\ pc[a] = "put" /\ d \in Devs /\ c \in Held(a) /\ capi_devs_table[c] = d /\ id[d] = c
      BY <1>13, LastRelease DEF capi_release_put, Goto
    <2>1. /\ pc'[a] = "loop" /\ pc' = [pc EXCEPT ![a] = "loop"]
          /\ \A x \in Devs : pc'[x] = pc[x]
          /\ at'[a] = NoDev /\ cursor'[a] = c + 1
          /\ \A b \in Appls : b # a => at'[b] = at[b] /\ cursor'[b] = cursor[b]
          /\ UNCHANGED <<capi_devs_list, capi_appls_list, offered, known, walked, id, devs>>
      BY <1>0, <1>13 DEF capi_release_put, Goto, TypeOK, Threads, appl, driver
    <2>2. Held(a)' = Held(a) \ {c}
      <3>1. c \in Nat /\ devs[a] \subseteq Nat
        BY <1>0, <2>0, SizesAssumption DEF TypeOK, Slots
      <3>2. \A i \in devs[a] : i >= c + 1 <=> i >= c /\ i # c
        BY <3>1
      <3> QED
        BY <2>1, <3>2 DEF Held
    <2> HIDE DEF d, c
    <2>3. Asks(a)'
      BY <1>0, <2>0, <2>1 DEF Asks, Walking, Settled
    <2>4. ASSUME NEW x \in Devs PROVE Agree(x, a)'
      <3>1. CASE x = d
        BY <1>0, <2>0, <2>1, <2>2, <3>1 DEF Agree, d
      <3>2. CASE x # d
        <4>1. pc[x] \in Connected => id[x] # c
          BY <2>0, <3>2 DEF RefInv, TableNumbers, HasNumber, Numbered, Operating, Connected
        <4> QED
          BY <1>0, <2>1, <2>2, <3>2, <4>1 DEF Agree, d
      <3> QED
        BY <3>1, <3>2
    <2>5. ApplAgrees(a)
      BY <2>1, <2>4 DEF ApplAgrees
    <2> QED
      BY <1>a, <1>b, <2>1, <2>3, <2>5 DEF ApplPC
  <1>14. ASSUME capi_release_done(a) PROVE MeetInv'
    <2>1. /\ pc[a] = "loop" /\ pc'[a] = "unregistered" /\ pc' = [pc EXCEPT ![a] = "unregistered"]
          /\ Held(a) = {} /\ cursor'[a] = MaxDevs + 1
          /\ \A b \in Appls : b # a => cursor'[b] = cursor[b]
          /\ capi_appls_list' = capi_appls_list \ {a}
          /\ \A x \in Devs : offered'[x] = offered[x] \ {a}
          /\ UNCHANGED <<capi_devs_list, known, walked, id, devs, at>>
      BY <1>0, <1>14 DEF capi_release_done, Goto, TypeOK
    <2>2. Held(a)' = Held(a)
      BY <1>0, <2>1, SizesAssumption DEF Held, TypeOK, Slots
    <2>3. Asks(a)'
      BY <1>0, <2>1 DEF Asks, Walking, Settled
    <2>4. \A x \in Devs : pc[x] \notin {"walk", "get", "open"}
      BY <1>0, <1>w, <2>1 DEF ListLocking
    <2>5. ApplAsks(a, "unregistered")
      <3>1. ASSUME NEW x \in Devs
            PROVE  /\ offered'[x] \in SUBSET capi_appls_list'
                   /\ pc[x] \in {"none", "allocated", "bind"} => offered'[x] = offered[x]
        BY <1>0, <2>1 DEF Asked
      <3>2. ASSUME NEW x \in Devs
            PROVE  /\ \A b \in Appls : b # a => (b \in offered'[x] <=> b \in offered[x])
                   /\ pc[x] \notin {"walk", "get", "open"}
        BY <2>1, <2>4
      <3>3. \A b \in Appls : b # a => (b \in capi_appls_list' <=> b \in capi_appls_list)
        BY <2>1
      <3> QED
        BY <2>1, <2>3, <3>1, <3>2, <3>3 DEF ApplAsks, ApplPC
    <2> QED
      BY <1>a, <1>c, <2>1, <2>2, <2>5 DEF ApplPC
  <1> QED
    BY <1>1, <1>2, <1>3, <1>4, <1>5, <1>6, <1>7, <1>8, <1>9, <1>10, <1>11, <1>12, <1>13,
       <1>14
    DEF ApplGoesOn, ApplBegins

-------------------------------------------------------------------------------
(* The theorems *)

LEMMA MeetInit == Init => MeetInv
  BY ThreadsAssumption
  DEF Init, MeetInv, AllAsked, AllAgree, Asked, Asks, Agree, Threads, Walking, Settled,
      Connected

LEMMA MeetNext == CoreInv /\ RefInv /\ MeetInv /\ [Next]_vars => MeetInv'
  <1> SUFFICES ASSUME CoreInv, RefInv, MeetInv, [Next]_vars PROVE MeetInv'
    OBVIOUS
  <1>1. ASSUME NEW d \in Devs, DriverGoesOn(d) \/ DriverBegins(d) PROVE MeetInv'
    BY <1>1, DriverMeets
  <1>2. ASSUME NEW a \in Appls, ApplGoesOn(a) \/ ApplBegins(a) PROVE MeetInv'
    BY <1>2, ApplMeets
  <1>3. CASE UNCHANGED <<capi_devs_list, capi_appls_list, id, offered, known, walked, devs,
                         cursor, at, pc>>
    BY <1>3 DEF MeetInv, AllAsked, AllAgree, Asked, Asks, Agree, Held
  <1>4. ASSUME NEW d \in Devs, NEW a \in Appls, enter_appl(d, a) \/ capi_appl_call(d, a)
        PROVE  MeetInv'
    BY <1>3, <1>4 DEF enter_appl, capi_appl_call, capi_appl_enqueue_message,
                      capi_appl_signal, capi_appl_signal_error, leave_appl, registry,
                      appl, locals
  <1>5. CASE UNCHANGED vars
    BY <1>3, <1>5 DEF vars, registry, appl, driver, locals
  <1> QED
    BY <1>1, <1>2, <1>4, <1>5 DEF Next

(* Registrations of devices and applications do not miss each other: a     *)
(* listed device was asked about every application that has returned from  *)
(* capi_register, and the application's bit tells the driver's answer.     *)
THEOREM NobodyIsMissed == Spec => []BindingComplete
  <1>1. Init => CoreInv /\ RefInv /\ MeetInv
    BY CoreInit, RefInit, MeetInit
  <1>2. CoreInv /\ RefInv /\ MeetInv /\ [Next]_vars => (CoreInv /\ RefInv /\ MeetInv)'
    BY CoreNext, RefNext, MeetNext
  <1>3. CoreInv /\ MeetInv => BindingComplete
    <2> SUFFICES ASSUME CoreInv, MeetInv, NEW d \in capi_devs_list, NEW a \in capi_appls_list,
                        pc[a] \in Settled
                 PROVE  a \in offered[d] /\ ((id[d] \in Held(a)) <=> (a \in known[d]))
      BY DEF BindingComplete, Settled
    <2>1. d \in Devs /\ a \in Appls /\ pc[d] \in Connected
      BY DEF CoreInv, TypeOK, ListWalks, Connected
    <2> QED
      BY <2>1 DEF MeetInv, AllAsked, AllAgree, Asks, Agree, Settled
  <1> QED
    BY <1>1, <1>2, <1>3, PTL DEF Spec

(* ... and they do not meet twice: no walk calls the driver's              *)
(* capi_register for an application that it was already asked about.       *)
THEOREM NobodyIsAskedTwice == Spec => OfferedOnce
  <1>1. Init => CoreInv /\ RefInv /\ MeetInv
    BY CoreInit, RefInit, MeetInit
  <1>2. CoreInv /\ RefInv /\ MeetInv /\ [Next]_vars => (CoreInv /\ RefInv /\ MeetInv)'
    BY CoreNext, RefNext, MeetNext
  <1> DEFINE Once == \A d \in Devs, a \in Appls :
                       register_next_appl(d) \/ register_next_device(a) => offered' # offered
  <1>3. CoreInv /\ MeetInv => Once
    <2> SUFFICES ASSUME CoreInv, MeetInv PROVE Once
      OBVIOUS
    <2>0. TypeOK /\ AllAsked
      BY DEF CoreInv, MeetInv
    <2>1. ASSUME NEW d \in Devs, register_next_appl(d) PROVE offered' # offered
      <3>1. PICK a \in capi_appls_list \ walked[d] :
               offered' = [offered EXCEPT ![d] = @ \cup {a}]
        BY <2>1 DEF register_next_appl
      <3>2. a \notin offered[d] /\ a \in offered'[d]
        BY <2>0, <2>1, <3>1 DEF register_next_appl, Goto, AllAsked, Asked, TypeOK
      <3> QED
        BY <3>2
    <2>2. ASSUME NEW a \in Appls, register_next_device(a) PROVE offered' # offered
      <3>1. PICK d \in capi_devs_list \ walked[a] :
               offered' = [offered EXCEPT ![d] = @ \cup {a}]
        BY <2>2 DEF register_next_device
      <3>2. a \notin offered[d] /\ a \in offered'[d]
        BY <2>0, <2>2, <3>1 DEF register_next_device, Goto, AllAsked, Asks, Walking, TypeOK
      <3> QED
        BY <3>2
    <2> QED
      BY <2>1, <2>2
  <1>4. CoreInv /\ MeetInv => [Once]_vars
    BY <1>3
  <1> HIDE DEF Once
  <1>5. Spec => [][Once]_vars
    BY <1>1, <1>2, <1>4, PTL DEF Spec
  <1> QED
    BY <1>5 DEF Once, OfferedOnce

-------------------------------------------------------------------------------
(* That the signal handler of an application is quiet once capi_release    *)
(* has returned, for any number of devices, applications, slots and        *)
(* messages, as long as the sysfs refuses no device.                       *)

(* Places in which a driver may signal when no registration is undone.     *)
Signalling == {"walk", "get", "open", "sysfs", "registered"}

(* A device is never on the error path of capi_device_register, ...        *)
NeverUndone == \A d \in Devs : pc[d] \notin {"fail_unlist", "fail_quiesce", "fail_count"}

(* ... a driver has threads in capi_appl_* calls only from its walk to     *)
(* capi_device_unregister, ...                                             *)
Signals == \A d \in Devs : running[d] # {} => pc[d] \in Signalling

(* ... and they signal applications it knows, or one whose capi_release    *)
(* waits in the driver's callback for them.                                *)
Heard ==
  \A d \in Devs : \A a \in running[d] :
    a \in known[d] \/ (pc[a] = "in_release" /\ at[a] = d)

SignalInv == NeverUndone /\ Signals /\ Heard

-------------------------------------------------------------------------------
(* Steps that leave running alone keep the invariant when they forget no   *)
(* application and no call of the driver's callback.                       *)

LEMMA SignalInit == Init => SignalInv
  BY ThreadsAssumption DEF Init, SignalInv, NeverUndone, Signals, Heard, Threads

LEMMA DriverSignals ==
  ASSUME ~SysfsMayFail, CoreInv, SignalInv, NEW d \in Devs,
         DriverGoesOn(d) \/ DriverBegins(d)
  PROVE  SignalInv'
  <1>0. /\ TypeOK /\ NeverUndone /\ Signals /\ Heard /\ d \in Threads
        /\ \A a \in Appls : a # d
    BY ThreadsAssumption DEF CoreInv, SignalInv, Threads
  <1>1. /\ running' = running /\ at' = at
        /\ \A x \in Devs : running[x] # {} => known[x] \subseteq known'[x]
    <2>0. known \in [Devs -> SUBSET Appls]
      BY <1>0 DEF TypeOK
    <2>1. CASE register_next_appl(d)
      <3>1. known' = known \/ \E a : known' = [known EXCEPT ![d] = @ \cup {a}]
        BY <2>1 DEF register_next_appl
      <3>2. \A x \in Devs : known[x] \subseteq known'[x]
        BY <2>0, <3>1
      <3> QED
        BY <2>1, <3>2 DEF register_next_appl
    <2>2. CASE driver_put(d)
      BY <2>0, <2>2 DEF driver_put, locals
    <2>3. CASE ~register_next_appl(d) /\ DriverGoesOn(d)
      BY <2>3
      DEF DriverGoesOn, bind_capi_device, register_next_appl_get, bind_capi_device_open,
          bind_capi_device_done, capi_device_register_sysfs, unregister_capi_device,
          unregister_capi_device_quiesce, unregister_capi_device_count, driver, locals
    <2>4. CASE ~driver_put(d) /\ DriverBegins(d)
      BY <2>4
      DEF DriverBegins, capi_device_alloc, capi_device_register, capi_device_unregister,
          driver, locals
    <2> QED
      BY <2>1, <2>2, <2>3, <2>4 DEF DriverBegins
  <1>2. PICK q \in DevPC :
          /\ pc' = [pc EXCEPT ![d] = q]
          /\ q \notin {"fail_unlist", "fail_quiesce", "fail_count"}
          /\ running[d] # {} => q \in Signalling
    <2>1. CASE DriverGoesOn(d)
      BY <1>0, <2>1
      DEF DriverGoesOn, bind_capi_device, register_next_appl, register_next_appl_get,
          bind_capi_device_open, bind_capi_device_done, capi_device_register_sysfs,
          unregister_capi_device, unregister_capi_device_quiesce,
          unregister_capi_device_count, Goto, NeverUndone, Signals, Signalling, DevPC
    <2>2. CASE DriverBegins(d)
      BY <1>0, <2>2
      DEF DriverBegins, capi_device_alloc, capi_device_register, capi_device_unregister,
          driver_put, Goto, Signals, Signalling, DevPC
    <2> QED
      BY <2>1, <2>2
  <1>3. /\ pc'[d] = q /\ \A x \in Devs : x # d => pc'[x] = pc[x]
        /\ \A a \in Appls : pc'[a] = pc[a]
    BY <1>0, <1>2 DEF TypeOK, Threads
  <1>4. NeverUndone'
    BY <1>0, <1>2, <1>3 DEF NeverUndone
  <1>5. Signals'
    BY <1>0, <1>1, <1>2, <1>3 DEF Signals
  <1>6. Heard'
    <2> SUFFICES ASSUME NEW x \in Devs, NEW a \in running'[x]
                 PROVE  a \in known'[x] \/ (pc'[a] = "in_release" /\ at'[a] = x)
      BY DEF Heard
    <2>1. a \in running[x] /\ a \in Appls
      BY <1>0, <1>1 DEF TypeOK
    <2> QED
      BY <1>0, <1>1, <1>3, <2>1 DEF Heard
  <1> QED
    BY <1>4, <1>5, <1>6 DEF SignalInv

(* The steps of an application that end with running as it was: only a     *)
(* return from the driver's capi_release leaves the callback.              *)
LEMMA ApplSignals ==
  ASSUME CoreInv, SignalInv, NEW a \in Appls, ApplGoesOn(a) \/ ApplBegins(a)
  PROVE  SignalInv'
  <1>0. /\ TypeOK /\ NeverUndone /\ Signals /\ Heard /\ a \in Threads
        /\ \A x \in Devs : x # a
    BY ThreadsAssumption DEF CoreInv, SignalInv, Threads
  <1>1. running' = running
    BY DEF ApplGoesOn, ApplBegins, bind_capi_appl, register_next_device,
           register_next_device_return, register_next_device_get, bind_capi_appl_done,
           capi_put_message_trylock, capi_put_message_return, capi_get_profile,
           capi_release_lock, capi_release_next, driver_release, driver_release_return,
           capi_release_put, capi_release_done, capi_register, capi_put_message,
           capi_get_message, try_get_capi_device_by_id, capi_release, driver
  <1>2. /\ \A x \in Threads : x # a => pc'[x] = pc[x]
        /\ \A b \in Appls : b # a => at'[b] = at[b]
    <2>1. \E q \in ApplPC : pc' = [pc EXCEPT ![a] = q]
      <3>1. CASE ApplGoesOn(a)
        BY <3>1
        DEF ApplGoesOn, bind_capi_appl, register_next_device, register_next_device_return,
            register_next_device_get, bind_capi_appl_done, capi_put_message_trylock,
            capi_put_message_return, capi_get_profile, capi_release_lock,
            capi_release_next, driver_release, driver_release_return, capi_release_put,
            capi_release_done, Goto, ApplPC
      <3>2. CASE ApplBegins(a)
        BY <3>2
        DEF ApplBegins, capi_register, capi_put_message, capi_get_message,
            try_get_capi_device_by_id, capi_release, Goto, ApplPC
      <3> QED
        BY <3>1, <3>2
    <2>2. at' = at \/ \E x : at' = [at EXCEPT ![a] = x]
      <3>1. CASE ApplGoesOn(a)
        BY <3>1
        DEF ApplGoesOn, bind_capi_appl, register_next_device, register_next_device_return,
            register_next_device_get, bind_capi_appl_done, capi_put_message_trylock,
            capi_put_message_return, capi_get_profile, capi_release_lock,
            capi_release_next, driver_release, driver_release_return, capi_release_put,
            capi_release_done, locals
      <3>2. CASE ApplBegins(a)
        BY <3>2
        DEF ApplBegins, capi_register, capi_put_message, capi_get_message,
            try_get_capi_device_by_id, capi_release, locals
      <3> QED
        BY <3>1, <3>2
    <2> QED
      BY <1>0, <2>1, <2>2 DEF TypeOK
  (* Outside of the callback nothing is forgotten. *)
  <1>k. ASSUME pc[a] # "in_release", \A x \in Devs : known[x] \subseteq known'[x]
        PROVE  SignalInv'
    <2>1. Heard'
      <3> SUFFICES ASSUME NEW x \in Devs, NEW b \in running'[x]
                   PROVE  b \in known'[x] \/ (pc'[b] = "in_release" /\ at'[b] = x)
        BY DEF Heard
      <3>1. b \in running[x] /\ b \in Appls /\ b \in Threads
        BY <1>0, <1>1 DEF TypeOK, Threads
      <3> QED
        BY <1>0, <1>2, <1>k, <3>1 DEF Heard
    <2> QED
      BY <1>0, <1>1, <1>2, <2>1 DEF SignalInv, NeverUndone, Signals, Threads
  <1>3. CASE ~(driver_release(a) \/ driver_release_return(a))
    <2>1. CASE register_next_device_return(a)
      <3>1. pc[a] # "in_release" /\ known \in [Devs -> SUBSET Appls]
        BY <1>0, <2>1 DEF register_next_device_return, Goto, TypeOK
      <3>2. known' = known \/ known' = [known EXCEPT ![at[a]] = @ \cup {a}]
        BY <2>1 DEF register_next_device_return
      <3>3. \A x \in Devs : known[x] \subseteq known'[x]
        BY <3>1, <3>2
      <3> QED
        BY <1>k, <3>1, <3>3
    <2>2. CASE ~register_next_device_return(a)
      <3>1. pc[a] # "in_release"
        <4>1. CASE ApplGoesOn(a)
          BY <1>3, <2>2, <4>1
          DEF ApplGoesOn, bind_capi_appl, register_next_device, register_next_device_get,
              bind_capi_appl_done, capi_put_message_trylock, capi_put_message_return,
              capi_get_profile, capi_release_lock, capi_release_next, capi_release_put,
              capi_release_done, Goto
        <4>2. CASE ApplBegins(a)
          BY <4>2
          DEF ApplBegins, capi_register, capi_put_message, capi_get_message,
              try_get_capi_device_by_id, capi_release, Goto
        <4> QED
          BY <4>1, <4>2
      <3>2. known' = known
        <4>1. CASE ApplGoesOn(a)
          BY <1>3, <2>2, <4>1
          DEF ApplGoesOn, bind_capi_appl, register_next_device, register_next_device_get,
              bind_capi_appl_done, capi_put_message_trylock, capi_put_message_return,
              capi_get_profile, capi_release_lock, capi_release_next, capi_release_put,
              capi_release_done, driver
        <4>2. CASE ApplBegins(a)
          BY <4>2
          DEF ApplBegins, capi_register, capi_put_message, capi_get_message,
              try_get_capi_device_by_id, capi_release, driver
        <4> QED
          BY <4>1, <4>2
      <3> QED
        BY <1>k, <3>1, <3>2
    <2> QED
      BY <2>1, <2>2
  <1>4. CASE driver_release(a) \/ driver_release_return(a)
    <2>1. /\ at' = at
          /\ \A x \in Devs : \A b \in Appls :
               b \in known[x] => b \in known'[x] \/ (b = a /\ at[a] = x)
          /\ pc'[a] = "in_release" \/ a \notin running[at[a]]
          /\ \A x \in Devs : a \in running[x] => a \in known[x] \/ at[a] = x
      <3>0. known \in [Devs -> SUBSET Appls] /\ pc \in [Threads -> DevPC \cup ApplPC]
        BY <1>0 DEF TypeOK
      <3>1. at' = at
        BY <1>4 DEF driver_release, driver_release_return, locals
      <3>2. \A x \in Devs : a \in running[x] => a \in known[x] \/ at[a] = x
        BY <1>0 DEF Heard
      <3>3. pc'[a] = "in_release" \/ a \notin running[at[a]]
        BY <1>0, <1>4, <3>0 DEF driver_release, driver_release_return, Goto
      <3>4. known' = known \/ known' = [known EXCEPT ![at[a]] = @ \ {a}]
        BY <1>4 DEF driver_release, driver_release_return, driver
      <3>5. \A x \in Devs : \A b \in Appls :
              b \in known[x] => b \in known'[x] \/ (b = a /\ at[a] = x)
        BY <3>0, <3>4
      <3> QED
        BY <3>1, <3>2, <3>3, <3>5
    <2>2. Heard'
      <3> SUFFICES ASSUME NEW x \in Devs, NEW b \in running'[x]
                   PROVE  b \in known'[x] \/ (pc'[b] = "in_release" /\ at'[b] = x)
        BY DEF Heard
      <3>1. b \in running[x] /\ b \in Appls /\ b \in Threads
        BY <1>0, <1>1 DEF TypeOK, Threads
      <3>2. CASE b = a
        BY <2>1, <3>1, <3>2
      <3>3. CASE b # a
        BY <1>0, <1>2, <2>1, <3>1, <3>3 DEF Heard
      <3> QED
        BY <3>2, <3>3
    <2> QED
      BY <1>0, <1>1, <1>2, <2>2 DEF SignalInv, NeverUndone, Signals, Threads
  <1> QED
    BY <1>3, <1>4

(* A thread of the driver enters a capi_appl_* call, or leaves it.         *)
LEMMA InterruptSignals ==
  ASSUME CoreInv, SignalInv, NEW d \in Devs, NEW a \in Appls,
         enter_appl(d, a) \/ capi_appl_call(d, a)
  PROVE  SignalInv'
  <1>0. TypeOK /\ NeverUndone /\ Signals /\ Heard
    BY DEF CoreInv, SignalInv
  <1>1. UNCHANGED <<pc, known, at>>
    BY DEF enter_appl, capi_appl_call, capi_appl_enqueue_message, capi_appl_signal,
           capi_appl_signal_error, leave_appl, locals
  <1>2. CASE enter_appl(d, a)
    <2>1. /\ \A x \in Devs : x # d => running'[x] = running[x]
          /\ running'[d] = running[d] \cup {a} /\ a \in known[d] /\ pc[d] \in Signalling
      BY <1>0, <1>2 DEF enter_appl, Operating, Signalling, NeverUndone, TypeOK
    <2> QED
      BY <1>0, <1>1, <2>1 DEF SignalInv, NeverUndone, Signals, Heard
  <1>3. CASE capi_appl_call(d, a)
    <2>1. /\ running' = [running EXCEPT ![d] = @ \ {a}]
          /\ running \in [Devs -> SUBSET Appls]
      BY <1>0, <1>3
      DEF capi_appl_call, capi_appl_enqueue_message, capi_appl_signal,
          capi_appl_signal_error, leave_appl, TypeOK
    <2>2. \A x \in Devs : running'[x] \subseteq running[x]
      BY <2>1
    <2> QED
      BY <1>0, <1>1, <2>2 DEF SignalInv, NeverUndone, Signals, Heard
  <1> QED
    BY <1>2, <1>3

LEMMA SignalNext == ~SysfsMayFail /\ CoreInv /\ SignalInv /\ [Next]_vars => SignalInv'
  <1> SUFFICES ASSUME ~SysfsMayFail, CoreInv, SignalInv, [Next]_vars PROVE SignalInv'
    OBVIOUS
  <1>1. CASE UNCHANGED vars
    BY <1>1 DEF vars, driver, locals, SignalInv, NeverUndone, Signals, Heard
  <1>2. CASE Next
    BY <1>2, DriverSignals, ApplSignals, InterruptSignals DEF Next
  <1> QED
    BY <1>1, <1>2

-------------------------------------------------------------------------------
(* The promise of capi_release to the application (core.c:323-325): once   *)
(* it has returned, no thread of any driver is in a call to its signal     *)
(* handler.  Where capi_device_register_sysfs may fail, the code does not  *)
(* keep it.                                                                *)
THEOREM ReleasedIsQuiet == ~SysfsMayFail => (Spec => []ReleaseQuiesces)
  <1> SUFFICES ASSUME ~SysfsMayFail PROVE Spec => []ReleaseQuiesces
    OBVIOUS
  <1> DEFINE All == CoreInv /\ RefInv /\ MeetInv /\ SignalInv
  <1>1. Init => All
    BY CoreInit, RefInit, MeetInit, SignalInit
  <1>2. All /\ [Next]_vars => All'
    BY CoreNext, RefNext, MeetNext, SignalNext
  <1>3. All => ReleaseQuiesces
    <2> SUFFICES ASSUME All, NEW a \in Appls, NEW d \in Devs, a \notin capi_appls_list,
                        pc[a] \in {"unregistered", "bind"}, a \in running[d]
                 PROVE  FALSE
      BY DEF ReleaseQuiesces
    <2>1. a \in known[d] /\ pc[d] \in Connected
      BY DEF SignalInv, Signals, Signalling, Connected, Heard
    <2>2. id[d] \in Held(a)
      BY <2>1 DEF MeetInv, AllAgree, Agree
    <2>3. Held(a) = {}
      BY DEF RefInv, ApplPlaces, Placed
    <2> QED
      BY <2>2, <2>3
  <1> HIDE DEF All
  <1> QED
    BY <1>1, <1>2, <1>3, PTL DEF Spec
===============================================================================

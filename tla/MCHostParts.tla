---------------------------- MODULE MCHostParts ----------------------------
(***************************************************************************)
(* Instances for TLC of the ticket lane on its own, of the delivery of     *)
(* events and of the timers.  A behaviour is a behaviour of one of them,   *)
(* chosen at the start.  The last two share their variables: y1 to y15 are *)
(* those of the part that runs, and what is checked of a part is checked   *)
(* while it runs.                                                          *)
(***************************************************************************)
EXTENDS CommandLaneMachine, TLC

CONSTANTS Threads, Turns, Capacity, MaxCommands, MaxSockets,
          UserTimers, ModelTimers, Unusable, Repeats, Handlers, MaxEvents, MaxAccidents

ASSUME DeliveryAssumption == Turns \in Nat /\ Capacity \in Nat \ {0}

ASSUME TimersApart ==
  /\ UserTimers \cap ModelTimers = {} /\ Unusable \subseteq ModelTimers
  /\ {"lane", "scheduler"} \cap Handlers = {}
  /\ (UserTimers \cup ModelTimers)
       \cap {"idle", "persists", "writes", "syncs", "sends", "merges", "delivers", "saves"} = {}

VARIABLES hostPart,   \* the part that runs
          y1, y2, y3, y4, y5, y6, y7, y8, y9, y10, y11, y12, y13, y14, y15

E == INSTANCE EventDelivery
       WITH taken <- y1, turn <- y2, queue <- y3, thread <- y4, seq <- y5, socket <- y6,
            pipe <- y7, lagged <- y8, shown <- y9, cursor <- y10, commands <- y11,
            sockets <- y12, told <- y13, gap <- y14, undone <- y15

T == INSTANCE Timers
       WITH host <- y1, file <- y2, core <- y3, busy <- y4, syncs <- y5, topics <- y6,
            thread <- y7, due <- y8, events <- y9, created <- y10, fired <- y11,
            ended <- y12, accidents <- y13

(* The variables from the nth on, not used by the part that runs. *)
HostFrom14 == <<y14, y15>>
HostFrom1 == <<y1, y2, y3, y4, y5, y6, y7, y8, y9, y10, y11, y12, y13, HostFrom14>>
HostFree14 == y14 = 0 /\ y15 = 0
HostFree1 ==
  /\ y1 = 0 /\ y2 = 0 /\ y3 = 0 /\ y4 = 0 /\ y5 = 0 /\ y6 = 0 /\ y7 = 0
  /\ y8 = 0 /\ y9 = 0 /\ y10 = 0 /\ y11 = 0 /\ y12 = 0 /\ y13 = 0 /\ HostFree14

(* Nothing is claimed of the timers after a race: their behaviours end     *)
(* there.                                                                  *)
TimersNext == T!Without({"raced"}) /\ T!Next

HostPartsInit ==
  /\ LaneInit
  /\ \/ hostPart = "lane" /\ HostFree1
     \/ hostPart = "delivery" /\ E!Init
     \/ hostPart = "timers" /\ T!Init /\ HostFree14

HostPartsNext ==
  /\ UNCHANGED hostPart
  /\ \/ hostPart = "lane" /\ LaneNext /\ UNCHANGED HostFrom1
     \/ hostPart = "delivery" /\ E!Next /\ UNCHANGED laneVars
     \/ hostPart = "timers" /\ TimersNext /\ UNCHANGED <<laneVars, HostFrom14>>

HostPartsSpec == HostPartsInit /\ [][HostPartsNext]_<<hostPart, laneVars, HostFrom1>>

(* What is checked of each part is stated, and explained, in its module. *)
NoEventIsMissing == hostPart = "delivery" => E!NoEventIsMissing
PageCatchesUp == hostPart = "delivery" => E!PageCatchesUp
TimersInv == hostPart = "timers" => T!TimersInv

ThreadSymmetry == Permutations(Threads)
=============================================================================

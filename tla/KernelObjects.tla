--------------------------- MODULE KernelObjects ----------------------------
(***************************************************************************)
(* One object of the kernel's foundations and its users: a semaphore, a    *)
(* list in memory, the image of a user program, or a file that several     *)
(* threads use.                                                            *)
(***************************************************************************)
EXTENDS Semaphore, LinkedList, Loader, MCFileAccess

VARIABLE object

objectVars == <<object, semaphoreVars, listVars, loaderVars, accessVars>>

AnyImage == CHOOSE file \in CoffFiles : TRUE

ObjectsInit ==
  /\ object \in {"semaphore", "list", "image", "file"}
  /\ SemaphoreInit /\ ListInit /\ LoaderInit /\ FileInit
  /\ object # "image" => sections = AnyImage

ObjectsNext ==
  /\ UNCHANGED object
  /\ \/ object = "semaphore" /\ SemaphoreNext /\ UNCHANGED <<listVars, loaderVars, accessVars>>
     \/ object = "list" /\ ListNext /\ UNCHANGED <<semaphoreVars, loaderVars, accessVars>>
     \/ object = "image" /\ LoaderNext /\ UNCHANGED <<semaphoreVars, listVars, accessVars>>
     \/ object = "file" /\ FileNext /\ UNCHANGED <<semaphoreVars, listVars, loaderVars>>

\* The fairness of the semaphore, and of the file where it is at work.
ObjectsFairness ==
  /\ Fairness
  /\ \A t \in Users \ Cleaners : SF_accessVars(object = "file" /\ TransferStep(t))
  /\ \A t \in Users : WF_accessVars(object = "file" /\ CallStep(t))

ObjectsSpec == ObjectsInit /\ [][ObjectsNext]_objectVars /\ ObjectsFairness
-----------------------------------------------------------------------------
\* EveryoneFinishes, of the behaviours in which the file is at work: every
\* thread of ex7_test finishes and the file ends removed, or a lookup that
\* comes after the removal brings the simulator down.
FileUsersFinish == object = "file" => EveryoneFinishes
=============================================================================

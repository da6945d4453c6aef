------------------------------ MODULE Library ------------------------------
(***************************************************************************)
(* The data structures and helpers of the library that have nothing to do  *)
(* with each other, side by side.  One of them is used in a behaviour, and *)
(* it is chosen at the begin: the states of the whole are the states of    *)
(* the parts, not their product.  Each keeps its state in object, what its *)
(* callers have done in ghost, and the threads it is used by in threads.   *)
(***************************************************************************)
EXTENDS Integers, Sequences, FiniteSets

CONSTANTS
  NULL, JUNK, WILD, NONE,
  Capacity, Keys,                              \* BinaryHeap, QuickSort
  Values, MaxSize, MaxCount,                   \* Vector
  TreeKeys, Copies, MaxNodes,                  \* SearchTree, HashMap
  MapKeys, MaxItems, Hash(_), Buckets,         \* HashMap
  Pushers, Popper, MaxPushes,                  \* Queue
  Timers,                                      \* SignalTimer
  Paterns, Plain, Args, MaxWords,              \* Getopt
  Answers, Prefix, TypeSize, BufSize,          \* HttpClient
  UrlChars, PathMax, QueryMax, MaxText,        \* Url
  Block, Word, Bits, Pieces, MaxBytes,         \* Md5
  MaxLen,                                      \* QuickSort
  Users, Handles, MaxOpen                      \* SerialPorts

VARIABLES part, object, ghost, threads

vars == <<part, object, ghost, threads>>

Heap == INSTANCE BinaryHeap WITH heap <- object, past <- ghost
Vec == INSTANCE Vector WITH vector <- object, items <- ghost
Tree == INSTANCE SearchTree WITH tree <- object, count <- ghost, Keys <- TreeKeys
Map == INSTANCE HashMap WITH map <- object, known <- ghost, Keys <- MapKeys
List == INSTANCE Queue WITH queue <- object, past <- ghost
Alarm == INSTANCE SignalTimer WITH timer <- object, work <- ghost
Words == INSTANCE Getopt WITH ctx <- object, past <- ghost
Http == INSTANCE HttpClient WITH client <- object, sent <- ghost
Sort == INSTANCE QuickSort WITH sort <- object, original <- ghost
Query == INSTANCE Url WITH url <- object, text <- ghost, Plain <- UrlChars
Digest == INSTANCE Md5 WITH md5 <- object, message <- ghost
Serial == INSTANCE SerialPorts WITH serial <- object, given <- ghost

(* What each part needs of its constants *)
ASSUME LibraryAssumption ==
  /\ Heap!HeapAssumption
  /\ Vec!VectorAssumption
  /\ Tree!TreeAssumption
  /\ Map!MapAssumption
  /\ List!QueueAssumption
  /\ Alarm!TimerAssumption
  /\ Words!GetoptAssumption
  /\ Http!HttpAssumption
  /\ Sort!SortAssumption
  /\ Query!UrlAssumption
  /\ Digest!Md5Assumption
  /\ Serial!SerialAssumption

(* A part that is used by one thread *)
Alone == threads = NONE

Init ==
  \/ part = "heap" /\ Heap!Init /\ Alone
  \/ part = "vector" /\ Vec!Init /\ Alone
  \/ part = "tree" /\ Tree!Init /\ Alone
  \/ part = "map" /\ Map!Init /\ Alone
  \/ part = "queue" /\ List!Init
  \/ part = "timer" /\ Alarm!Init /\ Alone
  \/ part = "getopt" /\ Words!Init /\ Alone
  \/ part = "http" /\ Http!Init /\ Alone
  \/ part = "sort" /\ Sort!Init /\ Alone
  \/ part = "url" /\ Query!Init /\ Alone
  \/ part = "md5" /\ Digest!Init /\ Alone
  \/ part = "serial" /\ Serial!Init

UseHeap == part = "heap" /\ Heap!Next /\ UNCHANGED <<part, threads>>
UseVector == part = "vector" /\ Vec!Next /\ UNCHANGED <<part, threads>>
UseTree == part = "tree" /\ Tree!Next /\ UNCHANGED <<part, threads>>
UseMap == part = "map" /\ Map!Next /\ UNCHANGED <<part, threads>>
UseQueue == part = "queue" /\ List!Next /\ UNCHANGED part
UseTimer == part = "timer" /\ Alarm!Next /\ UNCHANGED <<part, threads>>
UseGetopt == part = "getopt" /\ Words!Next /\ UNCHANGED <<part, threads>>
UseHttp == part = "http" /\ Http!Next /\ UNCHANGED <<part, threads>>
UseSort == part = "sort" /\ Sort!Next /\ UNCHANGED <<part, threads>>
UseUrl == part = "url" /\ Query!Next /\ UNCHANGED <<part, threads>>
UseMd5 == part = "md5" /\ Digest!Next /\ UNCHANGED <<part, threads>>
UseSerial == part = "serial" /\ Serial!Next /\ UNCHANGED part

Next ==
  \/ UseHeap \/ UseVector \/ UseTree \/ UseMap \/ UseQueue
  \/ UseTimer \/ UseGetopt \/ UseHttp \/ UseSort \/ UseUrl
  \/ UseMd5 \/ UseSerial

Spec == Init /\ [][Next]_vars

-----------------------------------------------------------------------------
(* src/bscl_bheap.c: the cells of the heap stay those put in, and the first *)
(* one is the least for as long as the one swap of sift_down is enough.    *)
HeapHolds == part = "heap" => Heap!HeapHolds

(* src/bscl_vector.c: the vector holds the items whatever was moved, grown *)
(* and shrunk, in a block with room for them.                              *)
VectorHolds == part = "vector" => Vec!VectorHolds

(* src/bscl_bstree.c: both walks by neighbours meet every item in the tree *)
(* once and in order.                                                      *)
TreeHolds == part = "tree" => Tree!TreeHolds

(* src/bscl_bstree.c: what is in the tree is found, and nothing else.      *)
FindHolds == part = "tree" => Tree!FindHolds

(* src/bscl_hashmap.c: a key that was not looked up since it was set is    *)
(* found, whichever others of its bucket were looked up or removed.        *)
KeysKept == part = "map" => Map!KeysKept

(* src/bscl_list.c: what the pointers say, both ways, is what was inserted *)
(* and not removed, with threads that push and one that pops.              *)
QueueHolds == part = "queue" => List!QueueHolds

(* include/bscl_queue.h: an item is popped twice only if it was popped     *)
(* before its insertion had returned.                                      *)
PopsOnce == part = "queue" => List!PopsOnce

(* src/linux/bscl_timer.c: between any two steps of new and delete the     *)
(* handler meets allocated timers only.                                    *)
HandlerSafe == part = "timer" => Alarm!HandlerSafe

(* src/bscl_getopt.c: the cursors give every option and argument of the    *)
(* command line, in order.                                                 *)
CommandLine == part = "getopt" => Words!CommandLine

(* src/bscl_http.c: a request succeeds with the whole head before it, and  *)
(* with exactly the body.                                                  *)
AnswerRead == part = "http" => Http!AnswerRead

(* src/bscl_sort.c: at every recursive call the items outside of the calls *)
(* still to be made are where they belong.                                 *)
SortHolds == part = "sort" => Sort!SortHolds

(* src/bscl_url.c: the pairs of a query are those the text says.           *)
QueryHolds == part = "url" => Query!QueryHolds

(* src/bscl_md5.c: the blocks do not depend on the pieces a message comes  *)
(* in, and end with its length.                                            *)
BlocksHold == part = "md5" => Digest!BlocksHold

(* src/win32/serialport.c: a descriptor stands for the handle it was opened *)
(* with, and no handle of a transfer stays open.                           *)
PortsKept == part = "serial" => Serial!PortsKept
=============================================================================

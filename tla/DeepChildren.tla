---------------------------- MODULE DeepChildren ----------------------------
(***************************************************************************)
(* tile/tile.go: Tile.DeepChildren lists a tile and its descendants.  One  *)
(* goroutine per tile sends the tile on an unbuffered channel and spawns   *)
(* four more; a collector appends what it receives; the caller waits for   *)
(* the senders, closes the channel and returns the list.  Nothing makes    *)
(* the caller wait for the collector.                                      *)
(***************************************************************************)
EXTENDS Integers, FiniteSets

CONSTANTS
    Root,       \* the tile that was asked for
    MaxZoom,    \* the deepest zoom level to list
    Nothing,    \* no tile, no list
    Torn        \* a list read while append was storing its slice header

VARIABLES
    sending,    \* tiles whose goroutine has yet to hand them over
    sent,       \* tiles whose goroutine has yet to spawn children and return
    wg,         \* the WaitGroup's counter
    closed,     \* whether the caller has closed the channel
    inHand,     \* what the collector received and has yet to append
    tiles,      \* what the collector has appended
    listed      \* what DeepChildren returned

deepVars == <<sending, sent, wg, closed, inHand, tiles, listed>>

Tile == [X : Int, Y : Int, Zoom : Int]

ASSUME DeepAssumption ==
    /\ Root \in Tile
    /\ MaxZoom \in Int
    /\ Nothing \notin Tile
    /\ Torn # Nothing

\* Faulty variant: a child inherits the other coordinate.
ChildrenSwapped(t) ==
    {[X |-> 2 * t.Y + i, Y |-> 2 * t.X + j, Zoom |-> t.Zoom + 1] : i \in 0..1, j \in 0..1}

Children(t) ==
    {[X |-> 2 * t.X + i, Y |-> 2 * t.Y + j, Zoom |-> t.Zoom + 1] : i \in 0..1, j \in 0..1}

\* Faulty variant: the first goroutine is not counted.
DeepInitUncounted ==
    /\ sending = {Root}
    /\ sent = {}
    /\ wg = 0
    /\ closed = FALSE
    /\ inHand = Nothing
    /\ tiles = {}
    /\ listed = Nothing

DeepInit ==
    /\ sending = {Root}
    /\ sent = {}
    /\ wg = 1
    /\ closed = FALSE
    /\ inHand = Nothing
    /\ tiles = {}
    /\ listed = Nothing

-----------------------------------------------------------------------------
\* A sender and the idle collector meet.
Receive(t) ==
    /\ t \in sending
    /\ inHand = Nothing
    /\ inHand' = t
    /\ sending' = sending \ {t}
    /\ sent' = sent \cup {t}
    /\ UNCHANGED <<wg, closed, tiles, listed>>

\* Faulty variant: the goroutines are spawned before they are added to wg, by
\* one that may be done before they are counted.
SpawnUncounted(t) ==
    /\ t \in sent
    /\ sent' = sent \ {t}
    /\ wg' = wg - 1
    /\ sending' = IF t.Zoom >= MaxZoom THEN sending ELSE sending \cup Children(t)
    /\ UNCHANGED <<closed, inHand, tiles, listed>>

\* deepChildrenImpl after its send: wg.Add(4), four goroutines, wg.Done.  The
\* counter cannot reach zero in between, so this is one step.
Spawn(t) ==
    /\ t \in sent
    /\ sent' = sent \ {t}
    /\ \/ /\ t.Zoom >= MaxZoom
          /\ wg' = wg - 1
          /\ UNCHANGED sending
       \/ /\ t.Zoom < MaxZoom
          /\ wg' = wg + 4 - 1
          /\ sending' = sending \cup Children(t)
    /\ UNCHANGED <<closed, inHand, tiles, listed>>

\* The collector appends and goes back to the channel.
Append ==
    /\ inHand # Nothing
    /\ tiles' = tiles \cup {inHand}
    /\ inHand' = Nothing
    /\ UNCHANGED <<sending, sent, wg, closed, listed>>

\* wg.Wait returns and the channel is closed.
Close ==
    /\ wg = 0
    /\ ~closed
    /\ closed' = TRUE
    /\ UNCHANGED <<sending, sent, wg, inHand, tiles, listed>>

\* DeepChildren reads the slice without synchronising with the collector.  An
\* append under way is seen, not seen or, when it moves the slice, half seen:
\* the capacity doubles up to 256 and then grows as the allocator has it.
Return ==
    /\ closed
    /\ listed = Nothing
    /\ \/ listed' = tiles
       \/ inHand # Nothing /\ listed' = tiles \cup {inHand}
       \/ /\ inHand # Nothing
          /\ \/ Cardinality(tiles) \in {0} \cup {2 ^ k : k \in 0..8}
             \/ Cardinality(tiles) > 256
          /\ listed' = Torn
    /\ UNCHANGED <<sending, sent, wg, closed, inHand, tiles>>

DeepStep ==
    \/ \E t \in sending : Receive(t)
    \/ \E t \in sent : Spawn(t)
    \/ Append
    \/ Close
    \/ Return

-----------------------------------------------------------------------------
\* What the list should hold: the tiles at zoom z below the root are those whose
\* coordinates fall into the root's square.
Level(z) ==
    LET n == 2 ^ (z - Root.Zoom)
    IN  {[X |-> n * Root.X + i, Y |-> n * Root.Y + j, Zoom |-> z] : i, j \in 0..(n - 1)}

Descendants == {Root} \cup UNION {Level(z) : z \in Root.Zoom..MaxZoom}

-----------------------------------------------------------------------------
(***************************************************************************)
(* The inductive invariant: a tile is handed over once, by a goroutine     *)
(* that the goroutine of its parent has spawned before it was counted out. *)
(***************************************************************************)

\* What was handed over, and what was spawned.
Received == (tiles \cup {inHand}) \ {Nothing}
Spawned == sending \cup Received

\* Goroutines whose children have been spawned, if they have any.
Parents == {t \in Received \ sent : t.Zoom < MaxZoom}

DeepTypes ==
    /\ sending \subseteq Descendants
    /\ sent \subseteq Descendants
    /\ closed \in BOOLEAN
    /\ inHand \in Descendants \cup {Nothing}
    /\ tiles \subseteq Descendants
    /\ listed \in (SUBSET Descendants) \cup {Nothing, Torn}

HandedOverOnce ==
    /\ sending \cap Received = {}
    /\ sent \subseteq Received
    /\ inHand \notin tiles

SpawnedInOrder ==
    /\ Root \in Spawned
    /\ \A c \in Spawned \ {Root} : \E t \in Parents : c \in Children(t)
    /\ \A t \in Parents : Children(t) \subseteq Spawned

Counted ==
    /\ IsFiniteSet(sending) /\ IsFiniteSet(sent) /\ IsFiniteSet(tiles)
    /\ wg = Cardinality(sending) + Cardinality(sent)
    /\ closed => wg = 0

\* A list is complete but for the tile that the collector had in hand.
NearlyComplete ==
    listed \notin {Nothing, Torn} =>
        /\ IsFiniteSet(listed)
        /\ \/ listed = Descendants
           \/ \E t \in Descendants : listed = Descendants \ {t}

DeepInv ==
    /\ DeepTypes
    /\ HandedOverOnce
    /\ SpawnedInOrder
    /\ Counted
    /\ NearlyComplete
=============================================================================

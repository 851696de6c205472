----------------------------- MODULE Favorites -----------------------------
(***************************************************************************)
(* FavoriteStoreImpl, for one user: a list of items, read from the user's  *)
(* file on first use.  ListByUser takes the slice under one lock and       *)
(* copies it under the next, and Remove shifts the items of that very      *)
(* array in between.  The file is overwritten in place: a write that is    *)
(* cut leaves a file that the next start takes for an empty list.          *)
(***************************************************************************)
EXTENDS Naturals, Sequences, SequencesExt, FiniteSets

CONSTANTS Items, Readers, None

VARIABLES
  arrays,   \* the arrays that back the slices, oldest first
  cache,    \* [array, len], or None before the file is read
  file,     \* the user's favorites.json, [torn, list]
  reader,   \* reader -> [slice, was, since, moved], or None
  answers,  \* what the readers answered, as [list, was, since, moved]
  wanted,   \* what the user has added and not removed
  unsaved,  \* whether the last write of the file has failed
  lost      \* whether the program stopped with a change that was not written

favoriteVars == <<arrays, cache, file, reader, answers, wanted, unsaved, lost>>

\* The parser takes nothing from a file that was cut, and load ignores its
\* error: the list of a torn file is empty.
Whole(list) == [torn |-> FALSE, list |-> list]
Torn == [torn |-> TRUE, list |-> <<>>]

FavoritesInit ==
  /\ arrays = <<>> /\ cache = None /\ file = Whole(<<>>)
  /\ reader = [r \in Readers |-> None] /\ answers = {}
  /\ wanted = {} /\ unsaved = FALSE /\ lost = FALSE

Content(slice) == SubSeq(arrays[slice.array], 1, slice.len)

load ==
  /\ cache = None
  /\ arrays' = Append(arrays, file.list)
  /\ cache' = [array |-> Len(arrays) + 1, len |-> Len(file.list)]
  /\ UNCHANGED <<file, reader, answers, wanted, unsaved, lost>>

\* os.WriteFile truncates and writes: all of it, nothing if the file cannot be
\* opened, or a part.  The caller is told, but the cache stays as it is.
save(list) ==
  /\ \/ file' = Whole(list) /\ unsaved' = FALSE
     \/ file' \in {file, Torn} /\ unsaved' = TRUE
  /\ UNCHANGED lost

\* Items are added behind the slice: in place where the array has room, which
\* it has after a removal, and in a new array or in place otherwise.
Add(item) ==
  LET ids == Content(cache) IN
  /\ cache # None /\ ~ Contains(ids, item)
  /\ \/ /\ arrays' = [arrays EXCEPT ![cache.array] = IF cache.len < Len(@) THEN [@ EXCEPT ![cache.len + 1] = item] ELSE Append(@, item)]
        /\ cache' = [cache EXCEPT !.len = @ + 1]
     \/ /\ cache.len = Len(arrays[cache.array])
        /\ arrays' = Append(arrays, Append(ids, item))
        /\ cache' = [array |-> Len(arrays) + 1, len |-> cache.len + 1]
  /\ save(Append(ids, item))
  /\ wanted' = wanted \cup {item}
  /\ reader' = [r \in Readers |-> IF reader[r] = None THEN None ELSE [reader[r] EXCEPT !.since = @ \cup {item}]]
  /\ UNCHANGED answers

\* The items behind the removed one move one place down, in the array.
Shortened(item) == [array |-> cache.array, len |-> cache.len - 1]

RemoveItem(item) ==
  LET ids == Content(cache)
      at == SelectInSeq(ids, LAMBDA i : i = item)
      n == cache.len
      array == arrays[cache.array]
      shifted == [i \in DOMAIN array |-> IF i >= at /\ i < n THEN array[i + 1] ELSE array[i]]
  IN
  /\ cache # None /\ at # 0
  /\ arrays' = [arrays EXCEPT ![cache.array] = shifted]
  /\ cache' = Shortened(item)
  /\ save(SubSeq(shifted, 1, Shortened(item).len))
  /\ wanted' = wanted \ {item}
  /\ reader' = [r \in Readers |-> IF reader[r] = None THEN None ELSE [reader[r] EXCEPT !.moved = TRUE]]
  /\ UNCHANGED answers

ListByUser(r) ==
  /\ cache # None /\ reader[r] = None
  /\ reader' = [reader EXCEPT ![r] = [slice |-> cache, was |-> ToSet(Content(cache)), since |-> {}, moved |-> FALSE]]
  /\ UNCHANGED <<arrays, cache, file, answers, wanted, unsaved, lost>>

ListCopy(r) ==
  /\ reader[r] # None
  /\ answers' = {[list |-> Content(reader[r].slice), was |-> reader[r].was, since |-> reader[r].since, moved |-> reader[r].moved]}
  /\ reader' = [reader EXCEPT ![r] = None]
  /\ UNCHANGED <<arrays, cache, file, wanted, unsaved, lost>>

\* The program stops, between two requests or while an addition or a removal
\* writes the file.
FavoritesRestart ==
  /\ cache # None
  /\ cache' = None /\ reader' = [r \in Readers |-> None]
  /\ \/ file' = file /\ lost' = (lost \/ unsaved)
     \/ file' = Torn /\ lost' = TRUE
  /\ unsaved' = FALSE
  /\ UNCHANGED <<arrays, answers, wanted>>

FavoritesSteps == load \/ \E r \in Readers : ListCopy(r)
FavoritesRequests ==
  \/ \E item \in Items : Add(item) \/ RemoveItem(item)
  \/ \E r \in Readers : ListByUser(r)
  \/ FavoritesRestart

-----------------------------------------------------------------------------
(* Properties *)

\* The file holds what the slice shows, each item once, whatever the slices
\* that share its array did, unless the last write of it failed.
FileIsCache ==
  /\ IsInjective(file.list)
  /\ cache # None => IsInjective(Content(cache)) /\ (~unsaved => Content(cache) = file.list)

\* The favourites are those that the user added and did not remove, over all
\* restarts, in memory and in the file, until the program stops with a change
\* that is not written: then the change is lost, and with a write that was cut
\* every favourite is.
FavoritesKept ==
  ~lost =>
    /\ cache # None => ToSet(Content(cache)) = wanted
    /\ ~unsaved => ~file.torn /\ ToSet(file.list) = wanted

\* A list shows the favourites of the moment when it was asked for, each once.
\* While an item is being removed another may show twice, or a later one show
\* already, but never anything that was no favourite at all.
ListsFavorites ==
  \A a \in answers : /\ ToSet(a.list) \subseteq a.was \cup a.since
                     /\ ~ a.moved => IsInjective(a.list) /\ ToSet(a.list) = a.was

=============================================================================

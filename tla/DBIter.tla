------------------------------- MODULE DBIter -------------------------------
(* DBIter of db/db_iter.cc: of the entries an internal iterator yields, it *)
(* shows for each user key the newest its snapshot sees, unless that is a  *)
(* deletion.  Going forward, the internal iterator is at the entry shown;  *)
(* going back, it is before all entries of the user key shown.             *)
EXTENDS Iterators

NewDBIter(it, s) ==
    [iter |-> it, sequence |-> s, saved_key |-> <<>>, saved_value |-> 0,
     direction |-> "forward", valid |-> FALSE]

DBKey(d)   == IF d.direction = "forward" THEN UserKey(KeyOf(d.iter)) ELSE d.saved_key
DBValue(d) == IF d.direction = "forward" THEN ValueOf(d.iter) ELSE d.saved_value

Invalid(d) == [d EXCEPT !.valid = FALSE, !.saved_key = <<>>]
Seen(d)    == SequenceOf(KeyOf(d.iter)) <= d.sequence
Here(d)    == UserKey(KeyOf(d.iter))

\* skipping: entries of user keys up to saved_key are hidden.
RECURSIVE FindNextUserEntry(_, _)
FindNextUserEntry(d, skipping) ==
    LET deleted == Seen(d) /\ TypeOf(KeyOf(d.iter)) = kTypeDeletion
        shown   == /\ Seen(d) /\ ~deleted
                   /\ skipping => BytewiseLess(d.saved_key, Here(d))
        past    == [d EXCEPT !.saved_key = IF deleted THEN Here(d) ELSE @, !.iter = Forth(@)]
    IN  IF shown THEN [d EXCEPT !.valid = TRUE, !.saved_key = <<>>]
        ELSE IF Valid(past.iter) THEN FindNextUserEntry(past, skipping \/ deleted)
        ELSE Invalid(past)

\* Mutant of FindPrevUserEntry: it stops at the first entry of the user key.
RECURSIVE FindPrevEntry(_, _)
FindPrevEntry(d, found) ==
    LET value == TypeOf(KeyOf(d.iter)) = kTypeValue
        taken == IF ~Seen(d) THEN d
                 ELSE [d EXCEPT !.saved_key   = IF value THEN Here(d) ELSE <<>>,
                                !.saved_value = IF value THEN ValueOf(d.iter) ELSE 0]
    IN  IF Valid(d.iter) /\ ~found
        THEN FindPrevEntry([taken EXCEPT !.iter = Back(@)], Seen(d) /\ value)
        ELSE IF found THEN [d EXCEPT !.valid = TRUE]
        ELSE [Invalid(d) EXCEPT !.saved_value = 0, !.direction = "forward"]

\* found: a value of the user key saved_key has been seen, and no deletion after
\* it.  The newest entry of a user key is the last one met going back.
RECURSIVE FindPrevUserEntry(_, _)
FindPrevUserEntry(d, found) ==
    LET value == TypeOf(KeyOf(d.iter)) = kTypeValue
        taken == IF ~Seen(d) THEN d
                 ELSE [d EXCEPT !.saved_key   = IF value THEN Here(d) ELSE <<>>,
                                !.saved_value = IF value THEN ValueOf(d.iter) ELSE 0]
    IN  IF Valid(d.iter) /\ ~(found /\ Seen(d) /\ BytewiseLess(Here(d), d.saved_key))
        THEN FindPrevUserEntry([taken EXCEPT !.iter = Back(@)], IF Seen(d) THEN value ELSE found)
        ELSE IF found THEN [d EXCEPT !.valid = TRUE]
        ELSE [Invalid(d) EXCEPT !.saved_value = 0, !.direction = "forward"]

FindNext(d, skipping) == IF Valid(d.iter) THEN FindNextUserEntry(d, skipping) ELSE Invalid(d)
Clear(d, direction) == [d EXCEPT !.direction = direction, !.saved_value = 0]

DBSeek(d, user) ==
    LET k == InternalKey(user, d.sequence, kTypeValue)
    IN  FindNext([Clear(d, "forward") EXCEPT !.saved_key = k, !.iter = SeekTo(@, k)], FALSE)
DBFirst(d) == FindNext([Clear(d, "forward") EXCEPT !.iter = ToFirst(@)], FALSE)
DBLast(d)  == FindPrevUserEntry([Clear(d, "reverse") EXCEPT !.iter = ToLast(@)], FALSE)

\* Coming from a step back, the internal iterator is before the entries of the
\* current key, or before all.
DBNext(d) ==
    IF d.direction = "forward" THEN FindNextUserEntry([d EXCEPT !.saved_key = Here(d)], TRUE)
    ELSE FindNext([d EXCEPT !.direction = "forward",
                            !.iter = IF Valid(@) THEN Forth(@) ELSE ToFirst(@)], TRUE)

\* Back past every entry of a user key
RECURSIVE BackPast(_, _)
BackPast(it, user) ==
    IF Valid(it) /\ ~BytewiseLess(UserKey(KeyOf(it)), user) THEN BackPast(Back(it), user) ELSE it

DBPrev(d) ==
    LET b == BackPast(d.iter, Here(d))
    IN  IF d.direction = "reverse" THEN FindPrevUserEntry(d, FALSE)
        ELSE IF ~Valid(b) THEN [Invalid(d) EXCEPT !.iter = b, !.saved_value = 0]
        ELSE FindPrevUserEntry([d EXCEPT !.iter = b, !.saved_key = Here(d),
                                         !.direction = "reverse"], FALSE)
=============================================================================

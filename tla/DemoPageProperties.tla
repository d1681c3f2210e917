------------------------- MODULE DemoPageProperties -------------------------
(***************************************************************************)
(* What the page promises whoever looks at it, although answers are late,  *)
(* lost or about tickets that were forgotten meanwhile.                    *)
(***************************************************************************)
EXTENDS DemoPage

StoredIds == { stored[n] : n \in 1 .. Len(stored) }

-----------------------------------------------------------------------------
\* The id is the only key to a ticket (app.js:5-8): an id this browser was answered is in
\* its list from then on, through reloads and errors, until the user forgets all or a read
\* of it fails; and what is on the screen is what the next load will find.
KeysAreKept ==
  /\ given \ failed \subseteq StoredIds
  /\ \A t \in Tabs : held[t] = stored

\* And nothing else is in the list, nothing twice: an answer that arrives after "forget"
\* does not bring its ticket back into it (app.js:56-75, 99-115, 443).
ForgottenStaysOut ==
  /\ StoredIds \subseteq given
  /\ \A m, n \in 1 .. Len(stored) : stored[m] = stored[n] => m = n

\* Nothing that was read before ticket i was done, and that no read will follow, is still on
\* its way: what "open by id" read, or the last of the reads that POLL_LIMIT allows.
NoLastWord(t, i) ==
  /\ \A n \in Turns : lookup[t][n] # [id |-> i, answer |-> "processing"]
  /\ \A c \in Origins :
       chain[t][<<c, i>>] # [at |-> "answered", attempt |-> PollLimit, answer |-> "processing"]

\* A page that is still reading a ticket when it is done, or that finds it in its list when it
\* is loaded, comes to show it as done and goes on to, although older answers, of reads that
\* will be repeated, arrive after newer ones; unless a read fails, the ticket goes or is
\* forgotten, or the page does not load (app.js:98-106, 442-447, 472-474).
ReadsCatchUp ==
  \A t \in Tabs, i \in Ids :
    ( /\ status[i] = "done" /\ NoLastWord(t, i)
      /\ \/ \E c \in Origins : chain[t][<<c, i>>].at \in {"reading", "timer"}
         \/ page[t] = "loading" /\ Holds(t, i) )
    ~> [](\/ shown[t][i] = "done"
          \/ status[i] = "gone" \/ i \in failed \/ page[t] = "broken" \/ ~Holds(t, i))

\* The page stops asking and its buttons come back, even if no ticket is ever finished
\* (app.js:17, 103, 418, 434).
PageComesToRest ==
  <>[](\A t \in Tabs :
         /\ \A b \in Buttons : post[t][b] = Idle
         /\ \A ci \in Origins \X Ids : chain[t][ci] = NoRead)

-----------------------------------------------------------------------------
\* What the comments say and the code does not do.

\* app.js:470: an id is dropped when its ticket has gone; so one whose ticket is there stays.
OnlyGoneIsDropped ==
  \A i \in given : status[i] \in Seen => i \in StoredIds

\* app.js:7: the ids this browser has been given are kept in localStorage.
GivenIsStored == given \subseteq StoredIds
==============================================================================

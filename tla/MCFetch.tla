------------------------------ MODULE MCFetch ------------------------------
(***************************************************************************)
(* Instances of Fetch for TLC.                                             *)
(***************************************************************************)
EXTENDS FetchProps

Base ==
  [tags |-> <<2>>, names |-> Names \ Sidecars, first |-> <<2024, 2, 14>>, year |-> 2024,
   days |-> {}, run |-> 1, applied |-> 0, minimum |-> 1, hops |-> 0, archive |-> TRUE,
   faults |-> FALSE]

\* the last day on which a manifest is valid, and the day after, around the
\* ends of February and of the year
DateScenes ==
  {[Base EXCEPT !.first = date, !.year = date[1],
                !.days = {UnixDay(date) + VALID_DAYS, UnixDay(date) + VALID_DAYS + 1}] :
     date \in {<<2024, 2, 14>>, <<2024, 2, 15>>, <<2024, 2, 16>>, <<2025, 2, 14>>,
               <<2025, 2, 15>>, <<2000, 2, 15>>, <<2100, 2, 14>>, <<2024, 12, 17>>,
               <<2024, 12, 18>>, <<2025, 3, 1>>}}

\* a release is built again while it is fetched, with and without sidecars
RebuiltScenes ==
  {[Base EXCEPT !.tags = <<2, 2>>, !.names = names] :
     names \in {Names, Names \ {"minisig"}, Names \ Sidecars}}

\* a newer release appears, one is withdrawn; floors and platforms differ
ReleaseScenes ==
  {[Base EXCEPT !.tags = <<2, 3>>, !.run = run, !.applied = applied, !.minimum = min,
                !.archive = archive, !.days = {UnixDay(Base.first) + VALID_DAYS + 1}] :
     run \in {1, 2}, applied \in {0, 2}, min \in {1, 2}, archive \in BOOLEAN}

NetworkScenes ==
  {[Base EXCEPT !.names = Names, !.hops = hops, !.faults = faults] :
     hops \in {0, 1, MAX_REDIRECTS, MAX_REDIRECTS + 1}, faults \in BOOLEAN}

AllScenes == DateScenes \cup RebuiltScenes \cup ReleaseScenes \cup NetworkScenes
=============================================================================

---------------------------- MODULE MCEventFlow ----------------------------
EXTENDS EventFlow

CONSTANTS p1, p2, police, fire

MCUsers == {Text(1), Text(2), Text(3)}

True == Text(5)
False == Text(4)

Item(city, name, time, description, info) ==
    [city |-> city, event_name |-> name, date_time |-> time,
     description |-> description, general_information |-> info]

\* An active event, with forces, and a description that is exactly as long as
\* a summary shows.
Burglary == Item(Text(7), Text(9), 120, <<13, 13>>,
    [active |-> True, forces_arrival_at_scene |-> True])

\* At the same time, a name that comes before, a city with a colon, information
\* with one, and a description that ends with an empty line.
Assault == Item([order |-> 8, colon |-> TRUE], Text(6), 120, <<9, 0>>,
    [active |-> False, forces_arrival_at_scene |-> True,
     note |-> [order |-> 3, colon |-> TRUE]])

\* Without information, with a long description.
Fire == [city |-> Text(8), event_name |-> Text(9), date_time |-> 60,
         description |-> <<30>>]

Unfinished == [city |-> Text(8), event_name |-> Text(9)]

MCFiles == { [channel_name |-> police, events |-> <<Burglary, Assault>>],
             [channel_name |-> police, events |-> <<Burglary, Unfinished>>],
             [channel_name |-> fire,   events |-> <<Fire>>] }

\* Nothing tells the clients apart.
MCSymmetry == Permutations({p1, p2})
=============================================================================

--------------------------- MODULE MCControlPlan ---------------------------
(* Small timelines and requests for ControlPlanBuilder.                    *)
EXTENDS ControlPlanBuilder

On(a) == [action |-> a, value |-> 1]
Off(a) == [action |-> a, value |-> 0]
Other(a) == [action |-> a, value |-> 2]
Axis(a, x) == [action |-> a, value |-> x]

Alphabet == {On("RaceRunning"), Off("RaceRunning"), On("Respawn"), Off("Respawn"),
             On("FinishLine"), Other("FinishLine"),
             On("SteerLeft"), Off("SteerLeft"), On("SteerRight"),
             Axis("Steer", 600), Axis("Steer", -30000),
             On("Accelerate"), On("Brake"), Off("Brake"),
             Axis("Gas", 20000), Axis("Gas", -19661)}

Silence == [t \in Times |-> <<>>]
Add(in, t, e) == [in EXCEPT ![t] = Append(@, e)]

Extended(lists) == lists \cup {Add(in, t, e) : in \in lists, t \in Times, e \in Alphabet}

\* A race that runs from the second tick, with a respawn on the way.
Running == Add(Add(Silence, 2, On("RaceRunning")), 4, On("Respawn"))
Stopped == Add(Add(Running, 4, Off("RaceRunning")), 5, On("RaceRunning"))

Pairs == Extended(Extended({Silence}))
MCInputLists == Pairs \cup Extended({Running, Stopped})

Request(tick, duration, enable, spawn, samples, trailing) == [
    tick |-> tick, prestart |-> 2, duration |-> duration, enable |-> enable,
    spawn |-> spawn, samples |-> samples, compare |-> samples # NoSamples,
    requested |-> Len(samples), trailing |-> trailing]

SandboxRequest == Request(2, 4, 2, 0, NoSamples, FALSE)
ValidationRequest == Request(2, 4, 2, 0, <<0, 2, 4>>, TRUE)

MCRequests ==
    {SandboxRequest, ValidationRequest,
     Request(2, 4, 4, NoTime, <<0, 4>>, TRUE),   \* the spawn by default
     Request(2, 4, NoTime, NoTime, <<0, 4>>, TRUE),
     Request(2, -1, 2, 0, <<0, 2>>, FALSE),      \* no recorded end
     Request(2, -1, 2, 0, <<0, 2, 2>>, FALSE),   \* two samples of one time
     Request(2, 3, 2, 0, NoSamples, FALSE),      \* an end off the grid
     Request(2, 4, 2, 4, <<0, 1, 4>>, FALSE),    \* a sample off the grid
     Request(2, 4, 2, 0, <<0, 1>>, FALSE),       \* the last sample off the grid
     Request(8, 4, 2, 0, NoSamples, TRUE),       \* no tick at all
     Request(2, 4, 2, 0, <<2, 0>>, FALSE),       \* samples out of order
     Request(2, -1, 2, 0, NoSamples, FALSE),     \* nothing to observe
     Request(0, 4, 2, 0, NoSamples, FALSE)}      \* no tick period
=============================================================================

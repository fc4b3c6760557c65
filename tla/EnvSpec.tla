------------------------------ MODULE EnvSpec ------------------------------
(***************************************************************************)
(* Course environments: the template the gateway generates, and the checks *)
(* of forge-validate env, reachability on the ground included.  Lengths    *)
(* are millimetres; a point is <<x, y, z>>.  The clip of a segment against *)
(* an obstacle works on fractions [n, d] with d > 0.                       *)
(***************************************************************************)
EXTENDS Integers, Sequences

Archetypes == {"arm", "biped", "quadruped", "rover", "fixedwing", "multirotor"}
X == 1
Z == 3

absOf(x) == IF x < 0 THEN -x ELSE x

courseTask(a) ==
  [arm |-> "reach", biped |-> "walk-to-target", quadruped |-> "rough-terrain", rover |-> "line-follow",
   fixedwing |-> "waypoint-chain", multirotor |-> "gate-slalom"][a]

(* buildTemplateEnvSpec: the seed shifts both gates sideways.              *)
buildTemplateEnvSpec(a, seed) ==
  LET airborne == a \in {"multirotor", "fixedwing"}
      arm      == a = "arm"
      gateY    == IF airborne THEN 1200 ELSE 500
      lateral  == ((seed % 7) - 3) * 150
  IN [bounds    |-> IF arm THEN <<4000, 4000, 4000>> ELSE <<20000, 6000, 20000>>,
      tasks     |-> {courseTask(a)},
      spawns    |-> {[p |-> IF airborne THEN <<-4000, 1000, 0>> ELSE <<0, 0, 0>>, filter |-> a]},
      obstacles |-> {[c |-> IF arm THEN <<400, 400, -1000>> ELSE <<2500, 450, -2500>>,
                      s |-> IF arm THEN <<350, 800, 350>> ELSE <<800, 900, 800>>]},
      gates     |-> {[id |-> "g1", p |-> IF arm THEN <<1000, 500, lateral>> ELSE <<4000, gateY, lateral>>,
                      w |-> IF arm THEN 450 ELSE 1200],
                     [id |-> "g2", p |-> IF arm THEN <<1400, 650, 400 + lateral>> ELSE <<7000, gateY, 1200 + lateral>>,
                      w |-> IF arm THEN 450 ELSE 1200]},
      order     |-> <<"g1", "g2">>,
      limit     |-> IF airborne THEN 45 ELSE 90]

inside_bounds(p, bounds) == \A i \in 1..3 : 2 * absOf(p[i]) <= bounds[i]

ground_archetype(spawn) == spawn.filter \in {"rover", "quadruped", "biped"}

leq(f, g) == f.n * g.d <= g.n * f.d
upper(f, g) == IF leq(f, g) THEN g ELSE f
lower(f, g) == IF leq(f, g) THEN f ELSE g

(* clip_segment_axis narrows the interval t of the segment that lies       *)
(* between min and max on one axis; None of it is left when t0 > t1.       *)
clip_segment_axis(origin, delta, min, max, t) ==
  IF delta = 0 THEN [t EXCEPT !.ok = @ /\ min <= origin /\ origin <= max]
  ELSE LET sign == IF delta > 0 THEN 1 ELSE -1
           a    == [n |-> sign * (min - origin), d |-> absOf(delta)]
           b    == [n |-> sign * (max - origin), d |-> absOf(delta)]
           t0   == upper(t.t0, lower(a, b))
           t1   == lower(t.t1, upper(a, b))
       IN [t0 |-> t0, t1 |-> t1, ok |-> t.ok /\ leq(t0, t1)]

segment_intersects_obstacle_xz(a, b, o) ==
  LET Clip(i, t) == clip_segment_axis(2 * a[i], 2 * (b[i] - a[i]), 2 * o.c[i] - o.s[i], 2 * o.c[i] + o.s[i], t)
      whole == [t0 |-> [n |-> 0, d |-> 1], t1 |-> [n |-> 1, d |-> 1], ok |-> TRUE]
  IN (\A i \in 1..3 : o.s[i] > 0) /\ Clip(Z, Clip(X, whole)).ok

spawn_can_reach_gate(spawn, gate, obstacles) ==
  ground_archetype(spawn) => \A o \in obstacles : ~segment_intersects_obstacle_xz(spawn.p, gate.p, o)

reachable_goal_gates(env) ==
  IF env.order = <<>> THEN env.gates
  ELSE {g \in env.gates : \E i \in DOMAIN env.order : env.order[i] = g.id}

(* The checks that fail; a spec without any is admitted.                   *)
validate_envspec(env) ==
  {c \in {"ENV-001", "ENV-002", "ENV-003", "ENV-004"} :
    \/ c = "ENV-001" /\ (env.spawns = {} \/ \E s \in env.spawns : ~inside_bounds(s.p, env.bounds))
    \/ c = "ENV-002" /\ \/ \E i \in 1..3 : env.bounds[i] <= 0
                        \/ \E g \in env.gates : ~inside_bounds(g.p, env.bounds)
                        \/ \E i \in DOMAIN env.order : \A g \in env.gates : g.id # env.order[i]
                        \/ \E g \in reachable_goal_gates(env) :
                             \A s \in env.spawns : ~spawn_can_reach_gate(s, g, env.obstacles)
    \/ c = "ENV-003" /\ (env.tasks = {} \/ env.limit <= 0)
    \/ c = "ENV-004" /\ \/ \E o \in env.obstacles : ~inside_bounds(o.c, env.bounds) \/ \E i \in 1..3 : o.s[i] <= 0
                        \/ \E g \in env.gates : g.w <= 0}

(* The reference: a straight ground path, tried at Samples + 1 points.     *)
PathBlocked(a, b, o, Samples) ==
  \E k \in 0..Samples : \A i \in {X, Z} :
    LET pos == 2 * (a[i] * (Samples - k) + b[i] * k)
    IN Samples * (2 * o.c[i] - o.s[i]) <= pos /\ pos <= Samples * (2 * o.c[i] + o.s[i])
=============================================================================

---------------------------- MODULE MCAsteroids ----------------------------
(***************************************************************************)
(* Asteroids for TLC, with what the sources' comments say of it.           *)
(***************************************************************************)
EXTENDS Asteroids

\* UniquePtrTest.cpp:67, where Universe::CollisionDetection has its list of rock
\* iterators from: each of them stores a rock to be deleted, so that no rock is
\* deleted by two of them.
RockDestroyedOnce == fault # "rockDestroyedTwice"
=============================================================================

----------------------------- MODULE MCCourseApi -----------------------------
(* CourseApi for TLC: requests of the API are interchangeable, and so are    *)
(* students.                                                                 *)
EXTENDS CourseApi, TLC

Symmetry == Permutations(Workers) \cup Permutations(Students)
=============================================================================

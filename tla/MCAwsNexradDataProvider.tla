----------------------- MODULE MCAwsNexradDataProvider -----------------------
(* Instances of AwsNexradDataProvider for TLC. *)
EXTENDS AwsNexradDataProvider

(* One object for every day that is over. *)
FullArchive == {<<d, 1>> : d \in 1 .. (StartDay - 1)}

=============================================================================

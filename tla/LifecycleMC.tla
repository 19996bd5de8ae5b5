---------------------------- MODULE LifecycleMC ----------------------------
(* What is run side by side: each plan is about some of the interferences. *)
EXTENDS Lifecycle

CONSTANTS h1, h2

Flat == [vnode |-> FALSE, expose |-> "none", host |-> NoHost]
Nested == [Flat EXCEPT !.vnode = TRUE]
By(type, h) == [Flat EXCEPT !.expose = type, !.host = h]
Run(op, mode, n, opts) == [op |-> op, mode |-> mode, at |-> n, opts |-> opts]

install == Run("install", "auto", 1, Flat)
uninstall == Run("uninstall", "auto", 1, Flat)
create == Run("create", "auto", 1, Flat)
createNested == Run("create", "operator", 2, Nested)
createDirectly == Run("create", "legacy", 1, [By("Ingress", h1) EXCEPT !.vnode = TRUE])
delete == Run("delete", "auto", 1, Flat)
exposeIngress == Run("expose", "auto", 1, By("Ingress", h2))
exposeBalancer == Run("expose", "auto", 1, By("LoadBalancer", NoHost))
connect == Run("connect", "auto", 1, Flat)
editNested == Run("edit", "auto", 1, Nested)
editIngress == Run("edit", "auto", 2, By("Ingress", h1))
editNoHost == Run("edit", "auto", 1, By("Ingress", NoHost))

MCHosts == {h1, h2}
MCPlans == {
  {install, uninstall, createNested}, {install, create, editNested},
  {create, exposeIngress}, {create, exposeBalancer}, {create, editNoHost},
  {createNested, delete}, {create, createNested}, {createNested, editIngress},
  {createDirectly, delete}, {createDirectly, exposeIngress},
  {createDirectly, connect, exposeBalancer}, {createDirectly, create} }
=============================================================================
